---------------------------- MODULE Spec2Model ----------------------------
(***************************************************************************)
(* A model of the session and identity core of slash: the API v1 auth      *)
(* service (SignIn, SignInWithSSO, SignUp, SignOut, the seat check), the   *)
(* user service (CreateUser, UpdateUser, DeleteUser), the per-user access  *)
(* token registry (List, Create, Delete over one stored list) and the      *)
(* store's user table.                                                     *)
(*                                                                         *)
(* A request handler is an operator from the current state and the        *)
(* request to its outcome: the response status, the user returned, the     *)
(* Set-Cookie header, the tokens minted and the state it leaves.  The      *)
(* actions apply the handlers.                                             *)
(*                                                                         *)
(* Three specifications share the variables:                               *)
(*   Spec          requests of the auth and user services, one at a time   *)
(*   SpecRegistry  the registry of one user over an arbitrary stored list  *)
(*   SpecRace      two registry writers of one user, interleaved at the    *)
(*                 store calls                                             *)
(***************************************************************************)
EXTENDS Integers, Sequences, FiniteSets, TLC

VARIABLES
    users,      \* the rows of the "user" table
    nextId,     \* the next value of the id sequence of the "user" table
    security,   \* the workspace security setting
    idps,       \* the identity providers of the workspace setting
    settings,   \* the general and shortcut-related workspace settings
    collections, \* the "collection" table: its rows and its id sequence
    tokens,     \* user id -> the stored access token list of that user
    now,        \* the wall clock, in ticks of 1/TimePrecision second
    ownerCache, \* the package variable ownerCache: <<>> while nil, else <<owner>>
    proc,       \* the in-flight calls of the specifications with concurrent calls
    writes      \* SpecRace: the calls in the order of their store writes;
                \* SpecOwner: the returns of GetInstanceOwner, in order

vars == <<users, nextId, security, idps, settings, collections, tokens, now, ownerCache, proc, writes>>

\* the collection table before any insert
NoCollections == [rows |-> {}, nextId |-> 1]

\* the workspace settings no request has written yet: the zero values of the
\* general and the shortcut-related setting
DefaultSettings ==
    [branding |-> "", customStyle |-> "", defaultVisibility |-> "VISIBILITY_UNSPECIFIED"]

-----------------------------------------------------------------------------
(* Bounds of the model *)

\* user ids the id sequence hands out in a run
MaxUserId == 2
\* seats a subscription may carry
MaxSeats == 2
\* records the registry holds, over all users, in a run of Spec
MaxTokens == 1
\* length of a stored list in SpecRegistry and SpecRace
MaxLen == 3
\* ticks on the clock
MaxTime == 3
\* collections created in a run
MaxCollections == 2
\* signals delivered to the process in a run
MaxSignals == 2

(* Request inputs *)

Emails == {"a@x.io", "b@x.io"}
MalformedIdentifiers == {"", "john.doe"}
SignUpPasswords == {"pw"}
SignInPasswords == {"pw", "bad"}
Nicknames == {"nick"}
DisplayNames == {"John Doe"}
IdpIds == {"idp1", "idp9"}
UserIds == 1..MaxUserId

\* what the license service answers while a request is handled: the feature
\* flags and the seats of the subscription
\* (the seats are not read when unlimited accounts are on)
Licenses ==
    {l \in [unlimitedAccounts : BOOLEAN, sso : BOOLEAN, seats : 1..MaxSeats] :
        l.unlimitedAccounts => l.seats = 1}

\* the ids the sequence of the user table can hand out in a run
IdSpace == 1..(MaxUserId + 1)

-----------------------------------------------------------------------------
(* gRPC status, time and cookie *)

OK == [code |-> "OK", fmt |-> "", args |-> <<>>]

Errorf(code, fmt, args) == [code |-> code, fmt |-> fmt, args |-> args]

unmatchedEmailAndPasswordError == "unmatched email and password"

\* time.Time{}: the zero time, which requests no expiry
ZeroTime == -2

\* Thu, 01 Jan 1970 00:00:00 GMT, before the model clock starts
Epoch == -1

\* jwt.TimePrecision is one second: the ticks of the model clock in a second
TimePrecision == 2

\* the session lifetime, one second of the model clock
AccessTokenDuration == 2

-----------------------------------------------------------------------------
(* Credential verifier *)

GenerateFromPassword(password) == <<"bcrypt", password>>

CompareHashAndPassword(hash, password) == hash = <<"bcrypt", password>>

\* util.RandomString(20): a value no request carries
RandomString == "random-20"

ValidateEmail(email) == email \notin MalformedIdentifiers

-----------------------------------------------------------------------------
(* Token codec *)

Secret == "secret"

KidV1 == <<"string", "v1">>

\* jwt.NewNumericDate: a time truncated to the whole second
NewNumericDate(t) == t - (t % TimePrecision)

\* a faulty issue: the expiry is rounded up to the next whole second
GenerateAccessTokenRoundingUp(email, id, expireTime, secret, t) ==
    [alg |-> "HS256", kid |-> KidV1, key |-> secret,
     name |-> email, sub |-> id, iat |-> NewNumericDate(t),
     exp |-> IF expireTime = ZeroTime THEN <<>>
             ELSE <<NewNumericDate(expireTime + TimePrecision - 1)>>]

\* the token issued at time t: a record of its header, the key it is signed
\* with and its claims
GenerateAccessToken(email, id, expireTime, secret, t) ==
    [alg |-> "HS256", kid |-> KidV1, key |-> secret,
     name |-> email, sub |-> id, iat |-> NewNumericDate(t),
     exp |-> IF expireTime = ZeroTime THEN <<>> ELSE <<NewNumericDate(expireTime)>>]

\* a faulty key function: it does not look at the key id
KeyFuncAnyKid(token) ==
    IF token.alg # "HS256" THEN <<>> ELSE <<Secret>>

\* the key function handed to jwt.ParseWithClaims: <<key>>, or <<>> for an error
KeyFunc(token) ==
    IF token.alg # "HS256" THEN <<>>
    ELSE IF token.kid[1] = "string" /\ token.kid[2] = "v1" THEN <<Secret>>
    ELSE <<>>

\* a faulty parse: it does not look at the expires-at claim
ParseWithClaimsNoExpiry(token, t) ==
    /\ KeyFunc(token) # <<>>
    /\ token.key = KeyFunc(token)[1]

\* a faulty parse: it refuses a token without an expires-at claim
ParseWithClaimsExpiryRequired(token, t) ==
    /\ KeyFunc(token) # <<>>
    /\ token.key = KeyFunc(token)[1]
    /\ token.exp # <<>> /\ t < token.exp[1]

\* jwt.ParseWithClaims: key function, signature, then the expires-at claim
ParseWithClaims(token, t) ==
    /\ KeyFunc(token) # <<>>
    /\ token.key = KeyFunc(token)[1]
    /\ (token.exp = <<>> \/ t < token.exp[1])

-----------------------------------------------------------------------------
(* The store: the "user" table *)

RoleAdmin == "ADMIN"
RoleUser == "USER"
Normal == "NORMAL"
Archived == "ARCHIVED"

\* a FindUser with no field set
FindAll == [id |-> <<>>, email |-> <<>>, role |-> <<>>]

FindEmail(email) == [id |-> <<>>, email |-> <<email>>, role |-> <<>>]

\* SELECT ... FROM "user" WHERE <every field the find sets>
ListUsers(rows, find) ==
    {u \in rows :
        /\ (find.id = <<>> \/ u.id = find.id[1])
        /\ (find.email = <<>> \/ u.email = find.email[1])
        /\ (find.role = <<>> \/ u.role = find.role[1])}

\* the unique index on "user".email
EmailTaken(rows, email) == \E u \in rows : u.email = email

\* INSERT INTO "user" ... RETURNING id, created_ts, updated_ts, row_status
NewRow(id, create) ==
    [id |-> id, email |-> create.email, nickname |-> create.nickname,
     passwordHash |-> create.passwordHash, role |-> create.role,
     rowStatus |-> Normal]

DBCreateUser(rows, id, create) == rows \cup {NewRow(id, create)}

\* UPDATE "user" SET <every field the update sets> WHERE id = update.id
UpdatedRow(u, update) ==
    [id |-> u.id,
     email |-> IF update.email = <<>> THEN u.email ELSE update.email[1],
     nickname |-> IF update.nickname = <<>> THEN u.nickname ELSE update.nickname[1],
     passwordHash |-> u.passwordHash,
     role |-> u.role,
     rowStatus |-> IF update.rowStatus = <<>> THEN u.rowStatus ELSE update.rowStatus[1]]

DBUpdateUser(rows, update) ==
    {IF u.id = update.id THEN UpdatedRow(u, update) ELSE u : u \in rows}

\* DELETE FROM "user" WHERE id = $1
DBDeleteUser(rows, id) == {u \in rows : u.id # id}

-----------------------------------------------------------------------------
(* Access token registry: the write path *)

AccessTokenRecord(accessToken, description) ==
    [accessToken |-> accessToken, description |-> description]

\* a faulty upsert: it replaces the records that carry the same token
UpsertedListReplacing(read, accessToken, description) ==
    Append(SelectSeq(read, LAMBDA r : r.accessToken # accessToken),
           AccessTokenRecord(accessToken, description))

\* a faulty upsert: it builds the list from the records that still validate
UpsertedListFromValidated(read, accessToken, description) ==
    Append(SelectSeq(read, LAMBDA r : ParseWithClaims(r.accessToken, now)),
           AccessTokenRecord(accessToken, description))

\* the list UpsertAccessTokenToStore writes back, given the list it read
UpsertedList(read, accessToken, description) ==
    Append(read, AccessTokenRecord(accessToken, description))

RECURSIVE DeletedListFirstOnly(_, _)
\* a faulty delete: it stops at the first record that carries the token
DeletedListFirstOnly(read, accessToken) ==
    IF read = <<>> THEN <<>>
    ELSE IF Head(read).accessToken = accessToken THEN Tail(read)
    ELSE <<Head(read)>> \o DeletedListFirstOnly(Tail(read), accessToken)

\* the list DeleteUserAccessToken writes back, given the list it read
DeletedList(read, accessToken) ==
    SelectSeq(read, LAMBDA r : r.accessToken # accessToken)

-----------------------------------------------------------------------------
(* Auth service *)

\* what happens inside doSignIn: a step fails, or none does, or none does and
\* the store call returns late, in the next second of the clock
Faults == {"none", "late", "mint", "persist", "header"}

\* the clock as doSignIn reads it after the store call
NowAfterPersist(fault) ==
    IF fault = "late" THEN now - (now % TimePrecision) + TimePrecision ELSE now

\* Format(time.RFC1123): a time printed to the second
FormatRFC1123(t) == t - (t % TimePrecision)

\* a faulty seat check, off by one: it rejects only above the seat count
checkSeatAvailabilityAbove(lic) ==
    IF ~lic.unlimitedAccounts /\ Cardinality(ListUsers(users, FindAll)) > lic.seats
    THEN Errorf("FailedPrecondition", "maximum number of users %d reached", <<lic.seats>>)
    ELSE OK

\* the seat check: OK, or the capacity error
checkSeatAvailability(lic) ==
    IF ~lic.unlimitedAccounts /\ Cardinality(ListUsers(users, FindAll)) >= lic.seats
    THEN Errorf("FailedPrecondition", "maximum number of users %d reached", <<lic.seats>>)
    ELSE OK

SessionCookie(accessToken, expires) == <<[value |-> <<accessToken>>, expires |-> expires]>>

\* the outcome of a handler: the response (status, user, cookie), the tokens it
\* minted, and the user table, id sequence and registry it leaves
Outcome(status, user, setCookie, minted, rows, id, registry) ==
    [status |-> status, user |-> user, cookie |-> setCookie, minted |-> minted,
     users |-> rows, nextId |-> id, tokens |-> registry]

\* a handler that returns an error before it minted or changed anything
Reject(status) == Outcome(status, <<>>, <<>>, <<>>, users, nextId, tokens)

\* a faulty doSignIn: it sets the cookie before it persists the token
doSignInCookieFirst(user, expireTime, fault) ==
    LET accessToken == GenerateAccessToken(user.email, user.id, expireTime, Secret, now)
        stored == [tokens EXCEPT ![user.id] = UpsertedList(@, accessToken, "user login")]
        cookie == SessionCookie(accessToken,
                                FormatRFC1123(NowAfterPersist(fault) + AccessTokenDuration))
    IN  IF fault = "mint"
        THEN [err |-> Errorf("Internal", "failed to generate access token", <<>>),
              minted |-> <<>>, tokens |-> tokens, cookie |-> <<>>]
        ELSE IF fault = "header"
        THEN [err |-> Errorf("Internal", "failed to set grpc header", <<>>),
              minted |-> <<accessToken>>, tokens |-> tokens, cookie |-> <<>>]
        ELSE IF fault = "persist"
        THEN [err |-> Errorf("Internal", "failed to upsert access token to store", <<>>),
              minted |-> <<accessToken>>, tokens |-> tokens, cookie |-> cookie]
        ELSE [err |-> OK, minted |-> <<accessToken>>, tokens |-> stored, cookie |-> cookie]

\* doSignIn: mint, persist with description "user login", set the cookie
doSignIn(user, expireTime, fault) ==
    LET accessToken == GenerateAccessToken(user.email, user.id, expireTime, Secret, now)
        stored == [tokens EXCEPT ![user.id] = UpsertedList(@, accessToken, "user login")]
    IN  IF fault = "mint"
        THEN [err |-> Errorf("Internal", "failed to generate access token", <<>>),
              minted |-> <<>>, tokens |-> tokens, cookie |-> <<>>]
        ELSE IF fault = "persist"
        THEN [err |-> Errorf("Internal", "failed to upsert access token to store", <<>>),
              minted |-> <<accessToken>>, tokens |-> tokens, cookie |-> <<>>]
        ELSE IF fault = "header"
        THEN [err |-> Errorf("Internal", "failed to set grpc header", <<>>),
              minted |-> <<accessToken>>, tokens |-> stored, cookie |-> <<>>]
        ELSE [err |-> OK, minted |-> <<accessToken>>, tokens |-> stored,
              cookie |-> SessionCookie(accessToken,
                                       FormatRFC1123(NowAfterPersist(fault) + AccessTokenDuration))]

\* the tail shared by the three sign-in handlers: doSignIn for `user`, with the
\* user table already at `rows` and the id sequence at `id`
Complete(user, rows, id, fault) ==
    LET r == doSignIn(user, now + AccessTokenDuration, fault)
    IN  IF r.err.code # "OK"
        THEN Outcome(Errorf("Internal", "failed to sign in", <<>>), <<>>, r.cookie, r.minted,
                     rows, id, r.tokens)
        ELSE Outcome(OK, <<user>>, r.cookie, r.minted, rows, id, r.tokens)

\* a faulty SignIn: it looks at the archived status before the password
SignInArchivedFirst(email, password, fault) ==
    LET found == ListUsers(users, FindEmail(email))
        user == CHOOSE u \in found : TRUE
    IN  IF found = {}
        THEN Reject(Errorf("InvalidArgument", unmatchedEmailAndPasswordError, <<>>))
        ELSE IF user.rowStatus = Archived
        THEN Reject(Errorf("PermissionDenied", "user has been archived", <<>>))
        ELSE IF ~CompareHashAndPassword(user.passwordHash, password)
        THEN Reject(Errorf("InvalidArgument", unmatchedEmailAndPasswordError, <<>>))
        ELSE IF security.disallowPasswordAuth /\ user.role = RoleUser
        THEN Reject(Errorf("PermissionDenied", "password authentication is not allowed", <<>>))
        ELSE Complete(user, users, nextId, fault)

\* a faulty SignIn: the password-auth lockout does not spare the admins
SignInLockoutAdmins(email, password, fault) ==
    LET found == ListUsers(users, FindEmail(email))
        user == CHOOSE u \in found : TRUE
    IN  IF found = {}
        THEN Reject(Errorf("InvalidArgument", unmatchedEmailAndPasswordError, <<>>))
        ELSE IF ~CompareHashAndPassword(user.passwordHash, password)
        THEN Reject(Errorf("InvalidArgument", unmatchedEmailAndPasswordError, <<>>))
        ELSE IF security.disallowPasswordAuth
        THEN Reject(Errorf("PermissionDenied", "password authentication is not allowed", <<>>))
        ELSE IF user.rowStatus = Archived
        THEN Reject(Errorf("PermissionDenied", "user has been archived", <<>>))
        ELSE Complete(user, users, nextId, fault)

SignIn(email, password, fault) ==
    LET found == ListUsers(users, FindEmail(email))
        user == CHOOSE u \in found : TRUE
    IN  IF found = {}
        THEN Reject(Errorf("InvalidArgument", unmatchedEmailAndPasswordError, <<>>))
        ELSE IF ~CompareHashAndPassword(user.passwordHash, password)
        THEN Reject(Errorf("InvalidArgument", unmatchedEmailAndPasswordError, <<>>))
        ELSE IF security.disallowPasswordAuth /\ user.role = RoleUser
        THEN Reject(Errorf("PermissionDenied", "password authentication is not allowed", <<>>))
        ELSE IF user.rowStatus = Archived
        THEN Reject(Errorf("PermissionDenied", "user has been archived", <<>>))
        ELSE Complete(user, users, nextId, fault)

\* a faulty SignUp: every new user gets role User
SignUpAlwaysUser(email, nickname, password, fault, lic) ==
    LET seat == checkSeatAvailability(lic)
        create == [email |-> email, nickname |-> nickname,
                   passwordHash |-> GenerateFromPassword(password), role |-> RoleUser]
    IN  IF security.disallowUserRegistration
        THEN Reject(Errorf("PermissionDenied", "sign up is not allowed", <<>>))
        ELSE IF seat.code # "OK"
        THEN Reject(seat)
        ELSE IF EmailTaken(users, email)
        THEN Reject(Errorf("Internal", "failed to create user", <<>>))
        ELSE Complete(NewRow(nextId, create), DBCreateUser(users, nextId, create),
                      nextId + 1, fault)

\* a faulty SignUp: it runs the seat check before it reads the security setting
SignUpSeatFirst(email, nickname, password, fault, lic) ==
    LET seat == checkSeatAvailability(lic)
        existingUsers == ListUsers(users, FindAll)
        create == [email |-> email, nickname |-> nickname,
                   passwordHash |-> GenerateFromPassword(password),
                   role |-> IF Cardinality(existingUsers) = 0 THEN RoleAdmin ELSE RoleUser]
    IN  IF seat.code # "OK"
        THEN Reject(seat)
        ELSE IF security.disallowUserRegistration
        THEN Reject(Errorf("PermissionDenied", "sign up is not allowed", <<>>))
        ELSE IF EmailTaken(users, email)
        THEN Reject(Errorf("Internal", "failed to create user", <<>>))
        ELSE Complete(NewRow(nextId, create), DBCreateUser(users, nextId, create),
                      nextId + 1, fault)

SignUp(email, nickname, password, fault, lic) ==
    LET seat == checkSeatAvailability(lic)
        existingUsers == ListUsers(users, FindAll)
        create == [email |-> email, nickname |-> nickname,
                   passwordHash |-> GenerateFromPassword(password),
                   role |-> IF Cardinality(existingUsers) = 0 THEN RoleAdmin ELSE RoleUser]
    IN  IF security.disallowUserRegistration
        THEN Reject(Errorf("PermissionDenied", "sign up is not allowed", <<>>))
        ELSE IF seat.code # "OK"
        THEN Reject(seat)
        ELSE IF EmailTaken(users, email)
        THEN Reject(Errorf("Internal", "failed to create user", <<>>))
        ELSE Complete(NewRow(nextId, create), DBCreateUser(users, nextId, create),
                      nextId + 1, fault)

-----------------------------------------------------------------------------
(* Identity provider adapter *)

OAuth2 == "OAUTH2"

Idp1 ==
    [id |-> "idp1", title |-> "Example", type |-> OAuth2,
     config |-> [clientId |-> "client", clientSecret |-> "s3cret", authUrl |-> "",
                 tokenUrl |-> "https://idp/token", userInfoUrl |-> "https://idp/userinfo",
                 fieldMapping |-> [identifier |-> "email", displayName |-> "name"]]]

\* a faulty construction: a missing user-info URL is left for the first use
NewIdentityProviderLazy(config) ==
    IF config.tokenUrl = "" THEN "the field \"tokenUrl\" is empty but required"
    ELSE IF config.fieldMapping.identifier = ""
    THEN "the field \"fieldMapping.identifier\" is empty but required"
    ELSE ""

\* oauth2.NewIdentityProvider: the error it returns, "" when it returns the adapter
NewIdentityProvider(config) ==
    IF config.tokenUrl = "" THEN "the field \"tokenUrl\" is empty but required"
    ELSE IF config.userInfoUrl = "" THEN "the field \"userInfoUrl\" is empty but required"
    ELSE IF config.fieldMapping.identifier = ""
    THEN "the field \"fieldMapping.identifier\" is empty but required"
    ELSE ""

\* the string value of a key of the flat user-info object, "" when absent
Claim(json, key) == IF key \in DOMAIN json THEN json[key] ELSE ""

\* a faulty extraction: it reads the keys "email" and "name" whatever the
\* field mapping says
UserInfoFixedKeys(config, json) ==
    [identifier |-> Claim(json, "email"), displayName |-> Claim(json, "name")]

\* IdentityProvider.UserInfo: the two mapped fields of the user-info object
UserInfo(config, json) ==
    [identifier |-> Claim(json, config.fieldMapping.identifier),
     displayName |-> Claim(json, config.fieldMapping.displayName)]

\* what the provider answers to one sign-in: whether the token exchange and
\* the user-info fetch succeed, and the user-info object
ProviderAnswers ==
    {[exchange |-> FALSE, fetch |-> FALSE, json |-> [name |-> d]] : d \in DisplayNames}
    \cup {[exchange |-> TRUE, fetch |-> FALSE, json |-> [name |-> d]] : d \in DisplayNames}
    \cup {[exchange |-> TRUE, fetch |-> TRUE, json |-> [name |-> d]] : d \in DisplayNames}
    \cup {[exchange |-> TRUE, fetch |-> TRUE, json |-> [email |-> e, name |-> d]] :
             e \in Emails \cup (MalformedIdentifiers \ {""}), d \in DisplayNames}

\* a faulty resolution: it signs an archived user in
ResolveSSOUserArchivedToo(userInfo, fault, lic) ==
    LET email == userInfo.identifier
        found == ListUsers(users, FindEmail(email))
        user == CHOOSE u \in found : TRUE
        seat == checkSeatAvailability(lic)
        userCreate == [email |-> email, nickname |-> userInfo.displayName,
                       passwordHash |-> GenerateFromPassword(RandomString),
                       role |-> RoleUser]
    IN  IF ~ValidateEmail(email)
        THEN Reject(Errorf("InvalidArgument", "invalid email address", <<>>))
        ELSE IF found = {}
        THEN IF seat.code # "OK"
             THEN Reject(seat)
             ELSE Complete(NewRow(nextId, userCreate), DBCreateUser(users, nextId, userCreate),
                           nextId + 1, fault)
        ELSE Complete(user, users, nextId, fault)

\* a faulty resolution: it does not validate the identifier
ResolveSSOUserNoValidation(userInfo, fault, lic) ==
    LET email == userInfo.identifier
        found == ListUsers(users, FindEmail(email))
        user == CHOOSE u \in found : TRUE
        seat == checkSeatAvailability(lic)
        userCreate == [email |-> email, nickname |-> userInfo.displayName,
                       passwordHash |-> GenerateFromPassword(RandomString),
                       role |-> RoleUser]
    IN  IF found = {}
        THEN IF seat.code # "OK"
             THEN Reject(seat)
             ELSE Complete(NewRow(nextId, userCreate), DBCreateUser(users, nextId, userCreate),
                           nextId + 1, fault)
        ELSE IF user.rowStatus = Archived
        THEN Reject(Errorf("PermissionDenied", "user has been archived", <<>>))
        ELSE Complete(user, users, nextId, fault)

\* a faulty resolution: it runs the seat check before it looks the user up
ResolveSSOUserSeatAlways(userInfo, fault, lic) ==
    LET email == userInfo.identifier
        found == ListUsers(users, FindEmail(email))
        user == CHOOSE u \in found : TRUE
        seat == checkSeatAvailability(lic)
        userCreate == [email |-> email, nickname |-> userInfo.displayName,
                       passwordHash |-> GenerateFromPassword(RandomString),
                       role |-> RoleUser]
    IN  IF ~ValidateEmail(email)
        THEN Reject(Errorf("InvalidArgument", "invalid email address", <<>>))
        ELSE IF seat.code # "OK"
        THEN Reject(seat)
        ELSE IF found = {}
        THEN Complete(NewRow(nextId, userCreate), DBCreateUser(users, nextId, userCreate),
                      nextId + 1, fault)
        ELSE IF user.rowStatus = Archived
        THEN Reject(Errorf("PermissionDenied", "user has been archived", <<>>))
        ELSE Complete(user, users, nextId, fault)

\* the part of SignInWithSSO that follows the provider calls
ResolveSSOUser(userInfo, fault, lic) ==
    LET email == userInfo.identifier
        found == ListUsers(users, FindEmail(email))
        user == CHOOSE u \in found : TRUE
        seat == checkSeatAvailability(lic)
        userCreate == [email |-> email, nickname |-> userInfo.displayName,
                       passwordHash |-> GenerateFromPassword(RandomString),
                       role |-> RoleUser]
    IN  IF ~ValidateEmail(email)
        THEN Reject(Errorf("InvalidArgument", "invalid email address", <<>>))
        ELSE IF found = {}
        THEN IF seat.code # "OK"
             THEN Reject(seat)
             ELSE Complete(NewRow(nextId, userCreate), DBCreateUser(users, nextId, userCreate),
                           nextId + 1, fault)
        ELSE IF user.rowStatus = Archived
        THEN Reject(Errorf("PermissionDenied", "user has been archived", <<>>))
        ELSE Complete(user, users, nextId, fault)

\* an outcome with the calls the handler made to its collaborators, in order,
\* before it resolved the user
Called(o, calls) ==
    [status |-> o.status, user |-> o.user, cookie |-> o.cookie, minted |-> o.minted,
     users |-> o.users, nextId |-> o.nextId, tokens |-> o.tokens, calls |-> calls]

\* a faulty SignInWithSSO: it looks the identity provider up before it asks
\* the license
SignInWithSSOLookupFirst(idpId, answer, fault, lic) ==
    LET matching == SelectSeq(idps, LAMBDA p : p.id = idpId)
        identityProvider == Head(matching)
        lookup == <<"GetWorkspaceSetting">>
        built == Append(lookup, "NewIdentityProvider")
        exchanged == Append(built, "ExchangeToken")
        fetched == Append(exchanged, "UserInfo")
    IN  IF matching = <<>>
        THEN Called(Reject(Errorf("InvalidArgument", "identity provider not found", <<>>)), lookup)
        ELSE IF ~lic.sso
        THEN Called(Reject(Errorf("PermissionDenied", "SSO is not available in the current plan", <<>>)),
                    lookup)
        ELSE IF identityProvider.type # OAuth2
        THEN Called(Reject(Errorf("panic", "nil pointer dereference", <<>>)), lookup)
        ELSE IF NewIdentityProvider(identityProvider.config) # ""
        THEN Called(Reject(Errorf("Internal", "failed to create oauth2 identity provider, err: %s",
                                  <<NewIdentityProvider(identityProvider.config)>>)),
                    built)
        ELSE IF ~answer.exchange
        THEN Called(Reject(Errorf("Internal", "failed to exchange token", <<>>)), exchanged)
        ELSE IF ~answer.fetch
        THEN Called(Reject(Errorf("Internal", "failed to get user info", <<>>)), fetched)
        ELSE Called(ResolveSSOUser(UserInfo(identityProvider.config, answer.json), fault, lic),
                    fetched)

\* a faulty SignInWithSSO: it repeats a provider call that failed
SignInWithSSORetrying(idpId, answer, fault, lic) ==
    LET matching == SelectSeq(idps, LAMBDA p : p.id = idpId)
        identityProvider == Head(matching)
        lookup == <<"GetWorkspaceSetting">>
        built == Append(lookup, "NewIdentityProvider")
        exchanged == Append(built, "ExchangeToken")
        fetched == Append(exchanged, "UserInfo")
    IN  IF ~lic.sso
        THEN Called(Reject(Errorf("PermissionDenied", "SSO is not available in the current plan", <<>>)),
                    <<>>)
        ELSE IF matching = <<>>
        THEN Called(Reject(Errorf("InvalidArgument", "identity provider not found", <<>>)), lookup)
        ELSE IF identityProvider.type # OAuth2
        THEN Called(Reject(Errorf("panic", "nil pointer dereference", <<>>)), lookup)
        ELSE IF NewIdentityProvider(identityProvider.config) # ""
        THEN Called(Reject(Errorf("Internal", "failed to create oauth2 identity provider, err: %s",
                                  <<NewIdentityProvider(identityProvider.config)>>)),
                    built)
        ELSE IF ~answer.exchange
        THEN Called(Reject(Errorf("Internal", "failed to exchange token", <<>>)), Append(exchanged, "ExchangeToken"))
        ELSE IF ~answer.fetch
        THEN Called(Reject(Errorf("Internal", "failed to get user info", <<>>)), Append(fetched, "UserInfo"))
        ELSE Called(ResolveSSOUser(UserInfo(identityProvider.config, answer.json), fault, lic),
                    fetched)

SignInWithSSO(idpId, answer, fault, lic) ==
    LET hits == {i \in 1..Len(idps) : idps[i].id = idpId}
        identityProvider == idps[CHOOSE i \in hits : \A j \in hits : i <= j]
        lookup == <<"GetWorkspaceSetting">>
        built == Append(lookup, "NewIdentityProvider")
        exchanged == Append(built, "ExchangeToken")
        fetched == Append(exchanged, "UserInfo")
    IN  IF ~lic.sso
        THEN Called(Reject(Errorf("PermissionDenied", "SSO is not available in the current plan", <<>>)),
                    <<>>)
        ELSE IF hits = {}
        THEN Called(Reject(Errorf("InvalidArgument", "identity provider not found", <<>>)), lookup)
        ELSE IF identityProvider.type # OAuth2
        THEN Called(Reject(Errorf("panic", "nil pointer dereference", <<>>)), lookup)
        ELSE IF NewIdentityProvider(identityProvider.config) # ""
        THEN Called(Reject(Errorf("Internal", "failed to create oauth2 identity provider, err: %s",
                                  <<NewIdentityProvider(identityProvider.config)>>)),
                    built)
        ELSE IF ~answer.exchange
        THEN Called(Reject(Errorf("Internal", "failed to exchange token", <<>>)), exchanged)
        ELSE IF ~answer.fetch
        THEN Called(Reject(Errorf("Internal", "failed to get user info", <<>>)), fetched)
        ELSE Called(ResolveSSOUser(UserInfo(identityProvider.config, answer.json), fault, lic),
                    fetched)

\* a faulty SignOut: it also drops the stored tokens
SignOutRevoking ==
    Outcome(OK, <<>>, <<[value |-> <<>>, expires |-> Epoch]>>, <<>>, users, nextId,
            [id \in IdSpace |-> <<>>])

SignOut ==
    Outcome(OK, <<>>, <<[value |-> <<>>, expires |-> Epoch]>>, <<>>, users, nextId, tokens)

-----------------------------------------------------------------------------
(* User service *)

CreateUser(email, nickname, password, lic) ==
    LET seat == checkSeatAvailability(lic)
        create == [email |-> email, nickname |-> nickname,
                   passwordHash |-> GenerateFromPassword(password), role |-> RoleUser]
    IN  IF seat.code # "OK"
        THEN Reject(seat)
        ELSE IF EmailTaken(users, email)
        THEN Reject(Errorf("Internal", "failed to create user", <<>>))
        ELSE Outcome(OK, <<NewRow(nextId, create)>>, <<>>, <<>>,
                     DBCreateUser(users, nextId, create), nextId + 1, tokens)

UpdateMasks == {<<>>, <<"email">>, <<"nickname">>, <<"email", "nickname">>, <<"role">>}

Has(paths, path) == \E i \in 1..Len(paths) : paths[i] = path

\* caller is the row of the current user
UpdateUser(caller, id, paths, email, nickname) ==
    LET userUpdate == [id |-> id,
                       email |-> IF Has(paths, "email") THEN <<email>> ELSE <<>>,
                       nickname |-> IF Has(paths, "nickname") THEN <<nickname>> ELSE <<>>,
                       rowStatus |-> <<>>]
    IN  IF caller.id # id
        THEN Reject(Errorf("PermissionDenied", "Permission denied", <<>>))
        ELSE IF Len(paths) = 0
        THEN Reject(Errorf("InvalidArgument", "UpdateMask is empty", <<>>))
        ELSE IF \/ userUpdate.email = <<>> /\ userUpdate.nickname = <<>>
                \/ userUpdate.email # <<>> /\ EmailTaken(users \ {caller}, email)
        THEN Reject(Errorf("Internal", "failed to update user", <<>>))
        ELSE Outcome(OK, <<UpdatedRow(caller, userUpdate)>>, <<>>, <<>>,
                     DBUpdateUser(users, userUpdate), nextId, tokens)

\* caller is the row of the current user
DeleteUser(caller, id) ==
    IF caller.id = id
    THEN Reject(Errorf("InvalidArgument", "cannot delete yourself", <<>>))
    ELSE Outcome(OK, <<>>, <<>>, <<>>, DBDeleteUser(users, id), nextId, tokens)

-----------------------------------------------------------------------------
(* Requests of the auth and user services, handled one at a time *)

RECURSIVE SumLen(_, _)
\* the number of records the lists f[x], x in S, hold together
SumLen(f, S) ==
    IF S = {} THEN 0
    ELSE LET x == CHOOSE y \in S : TRUE IN Len(f[x]) + SumLen(f, S \ {x})

\* the state a handled request leaves; the guards keep the run inside the bounds
Handle(outcome) ==
    /\ outcome.nextId <= MaxUserId + 1
    /\ SumLen(outcome.tokens, IdSpace) <= MaxTokens
    /\ users' = outcome.users
    /\ nextId' = outcome.nextId
    /\ tokens' = outcome.tokens
    /\ UNCHANGED <<security, idps, settings, collections, now, ownerCache, proc, writes>>

\* the store's UpdateUser with the row status set, which archives a user
ArchiveUser(id) ==
    /\ \E u \in users : u.id = id /\ u.rowStatus = Normal
    /\ users' = DBUpdateUser(users, [id |-> id, email |-> <<>>, nickname |-> <<>>,
                                     rowStatus |-> <<Archived>>])
    /\ UNCHANGED <<nextId, security, idps, settings, collections, tokens, now, ownerCache, proc, writes>>

\* a tick of the clock passes
Tick ==
    /\ now < MaxTime
    /\ now' = now + 1
    /\ UNCHANGED <<users, nextId, security, idps, settings, collections, tokens, ownerCache, proc, writes>>

\* the licenses a handler that reads no SSO flag is stepped with
SeatLicenses == {l \in Licenses : ~l.sso}

\* what happens inside doSignIn in a step of the specification: a late store
\* call leaves the state a timely one leaves
StepFaults == Faults \ {"late"}

\* the SSO requests the specification steps with: every request that gets as
\* far as resolving the user, and, of the requests refused before that, those
\* with no fault and a one-seat license, which the refusal does not read
SSORequests ==
    {r \in [idpId : IdpIds, answer : ProviderAnswers, fault : StepFaults, lic : Licenses] :
        \/ /\ r.lic.sso /\ r.idpId = Idp1.id /\ r.answer.exchange /\ r.answer.fetch
           /\ ValidateEmail(Claim(r.answer.json, "email"))
        \/ r.fault = "none" /\ r.lic.seats = 1 /\ ~r.lic.unlimitedAccounts}

Init ==
    /\ users = {}
    /\ nextId = 1
    /\ security \in [disallowUserRegistration : BOOLEAN, disallowPasswordAuth : BOOLEAN]
    /\ idps = <<Idp1>>
    /\ tokens = [id \in IdSpace |-> <<>>]
    /\ now = 0
    /\ ownerCache = <<>>
    /\ settings = DefaultSettings
    /\ collections = NoCollections
    /\ proc = <<>>
    /\ writes = <<>>

Next ==
    \/ \E email \in Emails, password \in SignInPasswords, fault \in StepFaults :
          Handle(SignIn(email, password, fault))
    \/ \E r \in SSORequests : Handle(SignInWithSSO(r.idpId, r.answer, r.fault, r.lic))
    \/ \E email \in Emails, nickname \in Nicknames, password \in SignUpPasswords,
          fault \in StepFaults, lic \in SeatLicenses :
          Handle(SignUp(email, nickname, password, fault, lic))
    \/ Handle(SignOut)
    \/ \E email \in Emails, nickname \in Nicknames, password \in SignUpPasswords, lic \in SeatLicenses :
          Handle(CreateUser(email, nickname, password, lic))
    \/ \E caller \in users, id \in UserIds, paths \in UpdateMasks, email \in Emails, nickname \in Nicknames :
          Handle(UpdateUser(caller, id, paths, email, nickname))
    \/ \E caller \in users, id \in UserIds : Handle(DeleteUser(caller, id))
    \/ \E id \in UserIds : ArchiveUser(id)

Spec == Init /\ [][Next]_vars

\* the same services and the same steps: the specification the claims about
\* SignInWithSSO are stated under
SpecSSO == Init /\ [][Next]_vars

-----------------------------------------------------------------------------
(* Claims about the auth and user services, under Spec *)

\* the generic failure of SignIn
Unmatched == Errorf("InvalidArgument", unmatchedEmailAndPasswordError, <<>>)

\* the outcome minted no token, stored none and set no cookie
NoSession(o) == o.minted = <<>> /\ o.tokens = tokens /\ o.cookie = <<>>

\* the email is known and the password is not that user's
WrongPassword(email, password) ==
    \E u \in ListUsers(users, FindEmail(email)) : ~CompareHashAndPassword(u.passwordHash, password)

\* C1: a SignIn with an unknown email and a SignIn with a known email and a
\* wrong password have the same outcome, whatever the user's role and status
\* and the security setting: InvalidArgument "unmatched email and password",
\* no token minted, nothing written to the registry or the user table, no cookie.
C1_SignInHidesKnownEmails ==
    \A email \in Emails, password \in SignInPasswords, fault \in Faults :
        (ListUsers(users, FindEmail(email)) = {} \/ WrongPassword(email, password))
        => LET o == SignIn(email, password, fault)
           IN  /\ o.status = Unmatched
               /\ o.user = <<>>
               /\ NoSession(o)
               /\ o.users = users /\ o.nextId = nextId

\* C1 witness: password auth is disallowed, an archived non-admin user gets a
\* wrong password, another email is unknown, and both answers are the same
C1_Witness ==
    \E u \in users, email \in Emails, password \in SignInPasswords :
        /\ u.rowStatus = Archived /\ u.role = RoleUser /\ security.disallowPasswordAuth
        /\ WrongPassword(u.email, password)
        /\ ListUsers(users, FindEmail(email)) = {}
        /\ SignIn(u.email, password, "none").status = Unmatched
        /\ SignIn(email, password, "none") = SignIn(u.email, password, "none")

\* the provider answered with a user-info object that maps to this email
ResolvesTo(answer, email) ==
    answer.exchange /\ answer.fetch /\ Claim(answer.json, "email") = email

\* C2: for every archived user, SignIn with any password (the correct one
\* included) and SignInWithSSO with an identity that resolves to the user's
\* email fail, and mint no token, store none and set no cookie.
C2_ArchivedLockout ==
    \A u \in users :
        u.rowStatus = Archived =>
            /\ \A password \in SignInPasswords \cup {RandomString}, fault \in Faults :
                  LET o == SignIn(u.email, password, fault)
                  IN  o.status.code # "OK" /\ o.user = <<>> /\ NoSession(o)
            /\ \A idpId \in IdpIds, answer \in ProviderAnswers, fault \in Faults, lic \in Licenses :
                  ResolvesTo(answer, u.email) =>
                      LET o == SignInWithSSO(idpId, answer, fault, lic)
                      IN  o.status.code # "OK" /\ o.user = <<>> /\ NoSession(o)

\* C2 witness: an archived user whose password is known: SignIn with it and
\* SignInWithSSO for the same email are both refused as archived
C2_Witness ==
    \E u \in users, password \in SignInPasswords, answer \in ProviderAnswers, lic \in Licenses :
        /\ u.rowStatus = Archived
        /\ CompareHashAndPassword(u.passwordHash, password)
        /\ ~(security.disallowPasswordAuth /\ u.role = RoleUser)
        /\ SignIn(u.email, password, "none").status
               = Errorf("PermissionDenied", "user has been archived", <<>>)
        /\ ResolvesTo(answer, u.email) /\ lic.sso
        /\ SignInWithSSO("idp1", answer, "none", lic).status
               = Errorf("PermissionDenied", "user has been archived", <<>>)

\* the request reaches the auto-provisioning of SignInWithSSO
Provisions(idpId, answer, lic) ==
    /\ lic.sso
    /\ \E i \in 1..Len(idps) :
          idps[i].id = idpId /\ idps[i].type = OAuth2 /\ NewIdentityProvider(idps[i].config) = ""
    /\ answer.exchange /\ answer.fetch
    /\ \E email \in Emails : Claim(answer.json, "email") = email /\ ~EmailTaken(users, email)

\* what the seat check decides for n stored users
SeatGate(o, lic) ==
    LET n == Cardinality(users)
        full == Errorf("FailedPrecondition", "maximum number of users %d reached", <<lic.seats>>)
    IN  /\ lic.unlimitedAccounts => o.status.code # "FailedPrecondition"
        /\ (~lic.unlimitedAccounts /\ n < lic.seats) => o.status.code # "FailedPrecondition"
        /\ (~lic.unlimitedAccounts /\ n >= lic.seats) =>
              o.status = full /\ o.users = users /\ o.nextId = nextId /\ NoSession(o)

\* C3: with n users stored, a SignUp (registration allowed) and an SSO
\* auto-provision pass the seat check when unlimited accounts are on or
\* n < seats, and otherwise fail with FailedPrecondition naming the seats and
\* create no user; so from an empty table the requests that find fewer than
\* N users pass and the one that finds N fails.
C3_SeatGating ==
    \A lic \in Licenses, fault \in Faults :
        /\ \A email \in Emails, nickname \in Nicknames, password \in SignUpPasswords :
              ~security.disallowUserRegistration =>
                  SeatGate(SignUp(email, nickname, password, fault, lic), lic)
        /\ \A idpId \in IdpIds, answer \in ProviderAnswers :
              Provisions(idpId, answer, lic) =>
                  SeatGate(SignInWithSSO(idpId, answer, fault, lic), lic)

\* C3 witness: every seat of the license is taken, and a SignUp and an SSO
\* auto-provision of a new email are refused with the capacity error
C3_Witness ==
    \E lic \in Licenses, email \in Emails, answer \in ProviderAnswers :
        /\ ~lic.unlimitedAccounts /\ Cardinality(users) = lic.seats
        /\ ~security.disallowUserRegistration
        /\ SignUp(email, "nick", "pw", "none", lic).status.code = "FailedPrecondition"
        /\ Provisions("idp1", answer, lic)
        /\ SignInWithSSO("idp1", answer, "none", lic).status.code = "FailedPrecondition"

\* C4: a SignUp that adds a row to the user table adds exactly one, with role
\* Admin when the table was empty and role User when it was not.
C4_FirstUserIsAdmin ==
    \A email \in Emails, nickname \in Nicknames, password \in SignUpPasswords,
       fault \in Faults, lic \in Licenses :
        LET o == SignUp(email, nickname, password, fault, lic)
        IN  o.users # users =>
                \E new \in o.users \ users :
                    /\ o.users = users \cup {new}
                    /\ new.email = email
                    /\ new.role = IF users = {} THEN RoleAdmin ELSE RoleUser

\* C4 witness: the first user signed up and is Admin, and a second SignUp
\* succeeds with role User
C4_Witness ==
    \E first \in users, email \in Emails, lic \in Licenses :
        /\ users = {first} /\ first.role = RoleAdmin
        /\ first.passwordHash = GenerateFromPassword("pw")
        /\ LET o == SignUp(email, "nick", "pw", "none", lic)
           IN  o.status.code = "OK" /\ o.user[1].role = RoleUser

\* C5: if the user table is not empty, some user has role Admin.
C5_AdminExists ==
    users # {} => \E u \in users : u.role = RoleAdmin

\* P holds of the outcome of every sign-in handler for every request, together
\* with what happens inside its doSignIn
ForAllSignIns(P(_, _)) ==
    /\ \A email \in Emails, password \in SignInPasswords, fault \in Faults :
          P(SignIn(email, password, fault), fault)
    /\ \A email \in Emails, nickname \in Nicknames, password \in SignUpPasswords,
          fault \in Faults, lic \in Licenses :
          P(SignUp(email, nickname, password, fault, lic), fault)
    /\ \A idpId \in IdpIds, answer \in ProviderAnswers, fault \in Faults, lic \in Licenses :
          P(SignInWithSSO(idpId, answer, fault, lic), fault)

\* the records the outcome added to the registry, as <<user id, record>> pairs
Persisted(o) ==
    UNION {{<<id, o.tokens[id][i]>> : i \in 1..Len(o.tokens[id])} : id \in IdSpace}
    \ UNION {{<<id, tokens[id][i]>> : i \in 1..Len(tokens[id])} : id \in IdSpace}

\* C11: a sign-in handler (SignIn, SignUp, SignInWithSSO) mints, then
\* persists, then sets the cookie: it persists only a token it minted, as the
\* last record of the signed-in user's list with description "user login"; it
\* sets a cookie only with that token as value and only after it was persisted;
\* it succeeds exactly when it set the cookie; and a failure of the minting
\* leaves nothing minted, persisted or set, a failure of the persisting
\* nothing persisted or set.
C11_MintPersistCookie ==
    ForAllSignIns(LAMBDA o, fault :
        /\ (o.status = OK) <=> (o.cookie # <<>>)
        /\ o.cookie # <<>> =>
              /\ o.minted # <<>> /\ o.user # <<>>
              /\ o.cookie[1].value = o.minted
              /\ LET list == o.tokens[o.user[1].id]
                 IN  /\ Len(list) = Len(tokens[o.user[1].id]) + 1
                     /\ list[Len(list)] = AccessTokenRecord(o.minted[1], "user login")
              /\ o.minted[1].sub = o.user[1].id /\ o.minted[1].name = o.user[1].email
        /\ o.tokens # tokens =>
              /\ o.minted # <<>>
              /\ \E id \in IdSpace :
                    o.tokens = [tokens EXCEPT ![id] =
                                   Append(@, AccessTokenRecord(o.minted[1], "user login"))]
        /\ fault = "mint" => o.minted = <<>> /\ o.tokens = tokens /\ o.cookie = <<>>
        /\ fault = "persist" => o.tokens = tokens /\ o.cookie = <<>>
        /\ fault = "header" => o.cookie = <<>>)

\* C11 witness: for one user SignIn succeeds with the cookie's token persisted,
\* fails after persisting when the header cannot be set, and fails after
\* minting, with nothing persisted, when the store write fails
C11_Witness ==
    \E u \in users, password \in SignInPasswords :
        LET done == SignIn(u.email, password, "none")
            noHeader == SignIn(u.email, password, "header")
            noWrite == SignIn(u.email, password, "persist")
        IN  /\ done.status = OK
            /\ <<u.id, AccessTokenRecord(done.cookie[1].value[1], "user login")>> \in Persisted(done)
            /\ noHeader.status.code = "Internal" /\ Persisted(noHeader) # {}
            /\ noHeader.cookie = <<>>
            /\ noWrite.status.code = "Internal" /\ noWrite.minted # <<>>
            /\ Persisted(noWrite) = {} /\ noWrite.cookie = <<>>

\* C12: SignOut succeeds, sets a cookie with an empty value that expired at
\* Thu, 01 Jan 1970 00:00:00 GMT, mints nothing and leaves the user table and
\* every stored token list as they were: every stored token that validates
\* before the call is stored and validates after it.
C12_SignOutOnlyClearsCookie ==
    LET o == SignOut
    IN  /\ o.status = OK /\ o.user = <<>> /\ o.minted = <<>>
        /\ o.cookie = <<[value |-> <<>>, expires |-> Epoch]>>
        /\ o.cookie[1].expires < now
        /\ o.users = users /\ o.nextId = nextId
        /\ DOMAIN o.tokens = DOMAIN tokens
        /\ \A id \in IdSpace :
              /\ Len(o.tokens[id]) = Len(tokens[id])
              /\ \A i \in 1..Len(tokens[id]) :
                    /\ o.tokens[id][i] = tokens[id][i]
                    /\ ParseWithClaims(tokens[id][i].accessToken, now)
                          => ParseWithClaims(o.tokens[id][i].accessToken, now)

\* C12 witness: a user holds a stored session token that validates, and it is
\* stored and validates in the state SignOut leaves
C12_Witness ==
    \E u \in users :
        /\ Len(tokens[u.id]) > 0
        /\ tokens[u.id][1].description = "user login"
        /\ ParseWithClaims(tokens[u.id][1].accessToken, now)
        /\ SignOut.status = OK
        /\ SignOut.tokens[u.id] = tokens[u.id]
        /\ ParseWithClaims(SignOut.tokens[u.id][1].accessToken, now)

\* the rejection of the password-auth lockout
PasswordAuthDenied ==
    Errorf("PermissionDenied", "password authentication is not allowed", <<>>)

\* C13: for a SignIn with the user's correct password: when DisallowPasswordAuth
\* is set, a user who is not Admin is rejected with PermissionDenied and no
\* token is minted, stored or sent, and an Admin is not rejected by this check
\* and, unless archived, signs in; when it is not set the check rejects nobody.
C13_PasswordAuthLockout ==
    \A u \in users, password \in SignInPasswords, fault \in Faults :
        CompareHashAndPassword(u.passwordHash, password) =>
            LET o == SignIn(u.email, password, fault)
            IN  /\ (security.disallowPasswordAuth /\ u.role # RoleAdmin) =>
                      o.status = PasswordAuthDenied /\ o.user = <<>> /\ NoSession(o)
                /\ (security.disallowPasswordAuth /\ u.role = RoleAdmin) =>
                      /\ o.status # PasswordAuthDenied
                      /\ (u.rowStatus = Normal /\ fault = "none") =>
                            o.status = OK /\ o.user = <<u>> /\ o.cookie # <<>>
                /\ ~security.disallowPasswordAuth =>
                      /\ o.status # PasswordAuthDenied
                      /\ (u.rowStatus = Normal /\ fault = "none") => o.status = OK

\* C13 witness: password auth is disallowed; an Admin signs in with the
\* password and a user who is not Admin is rejected with the same password
C13_Witness ==
    \E admin \in users, other \in users, password \in SignInPasswords :
        /\ security.disallowPasswordAuth
        /\ admin.role = RoleAdmin /\ other.role = RoleUser /\ other.rowStatus = Normal
        /\ CompareHashAndPassword(admin.passwordHash, password)
        /\ CompareHashAndPassword(other.passwordHash, password)
        /\ SignIn(admin.email, password, "none").status = OK
        /\ SignIn(other.email, password, "none").status = PasswordAuthDenied

\* C14: when DisallowUserRegistration is set, every SignUp is rejected with
\* PermissionDenied, also when the seat check would reject it, and creates no
\* user, mints and stores no token and sets no cookie.
C14_RegistrationDisallowed ==
    security.disallowUserRegistration =>
        \A email \in Emails, nickname \in Nicknames, password \in SignUpPasswords,
           fault \in Faults, lic \in Licenses :
            LET o == SignUp(email, nickname, password, fault, lic)
            IN  /\ o.status = Errorf("PermissionDenied", "sign up is not allowed", <<>>)
                /\ o.user = <<>> /\ NoSession(o)
                /\ o.users = users /\ o.nextId = nextId

\* C14 witness: registration is disallowed and every seat is taken: the seat
\* check rejects, and SignUp answers PermissionDenied
C14_Witness ==
    \E email \in Emails, lic \in Licenses :
        /\ security.disallowUserRegistration
        /\ users # {}
        /\ checkSeatAvailability(lic).code = "FailedPrecondition"
        /\ SignUp(email, "nick", "pw", "none", lic).status.code = "PermissionDenied"

-----------------------------------------------------------------------------
(* Claims about SignInWithSSO, under SpecSSO *)

\* the handler left the user table, the id sequence and the registry as they
\* were and returned no user
Untouched(o) ==
    o.users = users /\ o.nextId = nextId /\ o.tokens = tokens /\ o.user = <<>>

\* C15: when the license does not enable SSO, every SignInWithSSO returns
\* PermissionDenied before it made any call: no identity-provider lookup, no
\* provider call, no change of the user table or the registry, no session.
C15_SSOFeatureGate ==
    \A idpId \in IdpIds, answer \in ProviderAnswers, fault \in Faults, lic \in Licenses :
        ~lic.sso =>
            LET o == SignInWithSSO(idpId, answer, fault, lic)
            IN  /\ o.status = Errorf("PermissionDenied",
                                     "SSO is not available in the current plan", <<>>)
                /\ o.calls = <<>>
                /\ Untouched(o) /\ NoSession(o)

\* C15 witness: without the SSO feature a request for an unknown provider, one
\* whose token exchange fails and one that would sign an existing user in are
\* all refused with PermissionDenied, and with the feature they are answered
\* InvalidArgument, Internal and OK
C15_Witness ==
    \E u \in users, answer \in ProviderAnswers, failing \in ProviderAnswers,
       off \in Licenses, on \in Licenses :
        /\ ~off.sso /\ on.sso
        /\ ResolvesTo(answer, u.email) /\ ~failing.exchange
        /\ SignInWithSSO("idp9", answer, "none", on).status.code = "InvalidArgument"
        /\ SignInWithSSO("idp1", failing, "none", on).status.code = "Internal"
        /\ SignInWithSSO("idp1", answer, "none", on).status = OK
        /\ SignInWithSSO("idp9", answer, "none", off).status.code = "PermissionDenied"
        /\ SignInWithSSO("idp1", failing, "none", off).status.code = "PermissionDenied"
        /\ SignInWithSSO("idp1", answer, "none", off).status.code = "PermissionDenied"

\* the request gets an identifier from the provider: SSO is licensed, the
\* provider is configured and both provider calls succeed
Identified(idpId, answer, lic) ==
    /\ lic.sso
    /\ \E i \in 1..Len(idps) :
          idps[i].id = idpId /\ idps[i].type = OAuth2 /\ NewIdentityProvider(idps[i].config) = ""
    /\ answer.exchange /\ answer.fetch

\* C16: when the identifier the provider returns is not a well-formed email,
\* the empty identifier of a user-info object without the mapped field
\* included, SignInWithSSO returns InvalidArgument, signs no stored user in,
\* creates none and mints no token.
C16_SSOIdentifierValidated ==
    \A idpId \in IdpIds, answer \in ProviderAnswers, fault \in Faults, lic \in Licenses :
        (Identified(idpId, answer, lic) /\ Claim(answer.json, "email") \in MalformedIdentifiers) =>
            LET o == SignInWithSSO(idpId, answer, fault, lic)
            IN  /\ o.status = Errorf("InvalidArgument", "invalid email address", <<>>)
                /\ Untouched(o) /\ NoSession(o)

\* C16 witness: a user-info object without the mapped field and one whose
\* identifier is no email are both refused with InvalidArgument, where an
\* object with a new, well-formed email gets a user provisioned
C16_Witness ==
    \E missing \in ProviderAnswers, malformed \in ProviderAnswers, fine \in ProviderAnswers,
       lic \in Licenses :
        /\ users # {}
        /\ Identified("idp1", missing, lic) /\ "email" \notin DOMAIN missing.json
        /\ Identified("idp1", malformed, lic) /\ Claim(malformed.json, "email") = "john.doe"
        /\ SignInWithSSO("idp1", missing, "none", lic).status.code = "InvalidArgument"
        /\ SignInWithSSO("idp1", malformed, "none", lic).status.code = "InvalidArgument"
        /\ SignInWithSSO("idp1", fine, "none", lic).status = OK
        /\ SignInWithSSO("idp1", fine, "none", lic).users # users

\* C17: a SignInWithSSO whose provider returns a well-formed email: if a user
\* with that email is stored, it runs no seat check and creates or changes no
\* user, and signs that user in unless archived; if none is stored, it runs
\* the seat check and, when that passes, adds exactly one user, with that
\* email, role User and the provider's display name as nickname.
C17_SSOUserResolution ==
    \A idpId \in IdpIds, answer \in ProviderAnswers, fault \in Faults, lic \in Licenses :
        (Identified(idpId, answer, lic) /\ Claim(answer.json, "email") \in Emails) =>
            LET o == SignInWithSSO(idpId, answer, fault, lic)
                email == Claim(answer.json, "email")
                found == {u \in users : u.email = email}
                full == ~lic.unlimitedAccounts /\ Cardinality(users) >= lic.seats
            IN  /\ found # {} =>
                      /\ o.users = users /\ o.nextId = nextId
                      /\ o.status.code # "FailedPrecondition"
                      /\ \A u \in found :
                            (u.rowStatus = Normal /\ fault = "none") =>
                                o.status = OK /\ o.user = <<u>>
                /\ (found = {} /\ full) =>
                      o.status.code = "FailedPrecondition" /\ Untouched(o) /\ NoSession(o)
                /\ (found = {} /\ ~full) =>
                      /\ o.nextId = nextId + 1
                      /\ o.users = users \cup
                            {[id |-> nextId, email |-> email,
                              nickname |-> Claim(answer.json, "name"),
                              passwordHash |-> GenerateFromPassword(RandomString),
                              role |-> RoleUser, rowStatus |-> Normal]}
                      /\ Cardinality(o.users) = Cardinality(users) + 1
                      /\ fault = "none" => o.status = OK /\ o.user[1].email = email

\* C17 witness: every seat is taken; the provider's email of a stored user
\* signs that user in, and a new email is refused by the seat check; with a
\* free seat the new email gets a user with role User
C17_Witness ==
    \E u \in users, known \in ProviderAnswers, new \in ProviderAnswers,
       lic \in Licenses, roomy \in Licenses :
        /\ lic.sso /\ roomy.sso
        /\ checkSeatAvailability(lic).code = "FailedPrecondition"
        /\ checkSeatAvailability(roomy) = OK
        /\ ResolvesTo(known, u.email)
        /\ \E email \in Emails : ResolvesTo(new, email) /\ ~EmailTaken(users, email)
        /\ SignInWithSSO("idp1", known, "none", lic).status = OK
        /\ SignInWithSSO("idp1", known, "none", lic).users = users
        /\ SignInWithSSO("idp1", new, "none", lic).status.code = "FailedPrecondition"
        /\ SignInWithSSO("idp1", new, "none", roomy).status = OK
        /\ SignInWithSSO("idp1", new, "none", roomy).user[1].role = RoleUser

\* how often the handler made this call
CallCount(o, call) == Cardinality({i \in 1..Len(o.calls) : o.calls[i] = call})

\* C18: when the token exchange fails, SignInWithSSO returns Internal, having
\* tried the exchange once and the user-info fetch not at all; when the
\* exchange succeeds and the user-info fetch fails, it returns Internal, having
\* tried each once; in both cases the user table and every stored list are
\* unchanged and no session is created.
C18_ProviderFailureIsClean ==
    \A idpId \in IdpIds, answer \in ProviderAnswers, fault \in Faults, lic \in Licenses :
        LET o == SignInWithSSO(idpId, answer, fault, lic)
            reached == lic.sso /\ \E i \in 1..Len(idps) :
                          /\ idps[i].id = idpId /\ idps[i].type = OAuth2
                          /\ NewIdentityProvider(idps[i].config) = ""
        IN  /\ (reached /\ ~answer.exchange) =>
                  /\ o.status = Errorf("Internal", "failed to exchange token", <<>>)
                  /\ CallCount(o, "ExchangeToken") = 1 /\ CallCount(o, "UserInfo") = 0
                  /\ o.calls[Len(o.calls)] = "ExchangeToken"
                  /\ Untouched(o) /\ NoSession(o)
            /\ (reached /\ answer.exchange /\ ~answer.fetch) =>
                  /\ o.status = Errorf("Internal", "failed to get user info", <<>>)
                  /\ CallCount(o, "ExchangeToken") = 1 /\ CallCount(o, "UserInfo") = 1
                  /\ o.calls[Len(o.calls)] = "UserInfo"
                  /\ Untouched(o) /\ NoSession(o)
            /\ CallCount(o, "ExchangeToken") <= 1 /\ CallCount(o, "UserInfo") <= 1

\* C18 witness: with users and a token stored, a failing token exchange and a
\* failing user-info fetch each end the request with Internal and nothing changed
C18_Witness ==
    \E u \in users, noToken \in ProviderAnswers, noInfo \in ProviderAnswers, lic \in Licenses :
        /\ lic.sso /\ Len(tokens[u.id]) > 0
        /\ ~noToken.exchange
        /\ noInfo.exchange /\ ~noInfo.fetch
        /\ SignInWithSSO("idp1", noToken, "none", lic).status.code = "Internal"
        /\ SignInWithSSO("idp1", noToken, "none", lic).calls =
               <<"GetWorkspaceSetting", "NewIdentityProvider", "ExchangeToken">>
        /\ SignInWithSSO("idp1", noInfo, "none", lic).status.code = "Internal"
        /\ SignInWithSSO("idp1", noInfo, "none", lic).calls =
               <<"GetWorkspaceSetting", "NewIdentityProvider", "ExchangeToken", "UserInfo">>
        /\ SignInWithSSO("idp1", noInfo, "none", lic).tokens = tokens

\* C22: on every successful sign-in, by password, by sign-up or by SSO, the
\* Expires attribute of the session cookie equals the expires-at claim of the
\* token the cookie carries.
C22_CookieExpiresWithToken ==
    ForAllSignIns(LAMBDA o, fault :
        o.status = OK =>
            /\ Len(o.cookie) = 1
            /\ o.cookie[1].value = o.minted
            /\ <<o.cookie[1].expires>> = o.minted[1].exp)

-----------------------------------------------------------------------------
(* Two registry writers of one user, interleaved at the store calls *)

\* the user whose registry the registry specifications work on
RegistryUser ==
    [id |-> 1, email |-> "a@x.io", nickname |-> "nick",
     passwordHash |-> GenerateFromPassword("pw"), role |-> RoleAdmin, rowStatus |-> Normal]

Procs == {1, 2}

\* the tokens the two calls carry: minted for the user in the current second,
\* without and with an expiry
RaceTokens ==
    {GenerateAccessToken(RegistryUser.email, RegistryUser.id, e, Secret, 0) :
        e \in {ZeroTime, AccessTokenDuration}}

\* a call of UpsertAccessTokenToStore (create) or DeleteUserAccessToken (delete)
RaceCalls ==
    [kind : {"create"}, accessToken : RaceTokens, description : {"ci", "user login"}]
    \cup [kind : {"delete"}, accessToken : RaceTokens, description : {""}]

RECURSIVE SeqsUpTo(_, _)
\* the sequences over S of length at most n
SeqsUpTo(S, n) ==
    IF n = 0 THEN {<<>>}
    ELSE LET shorter == SeqsUpTo(S, n - 1)
         IN  shorter \cup {Append(q, x) : q \in {r \in shorter : Len(r) = n - 1}, x \in S}

\* a faulty write-back: it applies the change to the list stored at the time
\* of the write, not to the list the call read
WriteBackMerged(call, read) ==
    IF call.kind = "create"
    THEN UpsertedList(tokens[RegistryUser.id], call.accessToken, call.description)
    ELSE DeletedList(tokens[RegistryUser.id], call.accessToken)

\* the list a call hands to UpsertUserSetting, given the list it read
WriteBack(call, read) ==
    IF call.kind = "create"
    THEN UpsertedList(read, call.accessToken, call.description)
    ELSE DeletedList(read, call.accessToken)

\* s.Store.GetUserAccessTokens: the call takes its copy of the stored list
RaceRead(p) ==
    /\ proc[p].pc = "start"
    /\ proc' = [proc EXCEPT ![p].pc = "read",
                            ![p].read = tokens[RegistryUser.id],
                            ![p].readAt = Len(writes)]
    /\ UNCHANGED <<users, nextId, security, idps, settings, collections, tokens, now, ownerCache, writes>>

\* s.Store.UpsertUserSetting: the call writes the whole list and returns
RaceWrite(p) ==
    /\ proc[p].pc = "read"
    /\ tokens' = [tokens EXCEPT ![RegistryUser.id] = WriteBack(proc[p].call, proc[p].read)]
    /\ proc' = [proc EXCEPT ![p].pc = "done", ![p].status = OK]
    /\ writes' = Append(writes, p)
    /\ UNCHANGED <<users, nextId, security, idps, settings, collections, now, ownerCache>>

\* either store call fails: the call returns an error and writes nothing
RaceFail(p) ==
    /\ proc[p].pc \in {"start", "read"}
    /\ proc' = [proc EXCEPT ![p].pc = "done",
                            ![p].status = Errorf("Internal", "failed to upsert user setting", <<>>)]
    /\ UNCHANGED <<users, nextId, security, idps, settings, collections, tokens, now, ownerCache, writes>>

InitRace ==
    /\ users = {RegistryUser}
    /\ nextId = 2
    /\ security = [disallowUserRegistration |-> FALSE, disallowPasswordAuth |-> FALSE]
    /\ idps = <<Idp1>>
    /\ \E stored \in SeqsUpTo({AccessTokenRecord(t, "ci") : t \in RaceTokens}, MaxLen) :
          tokens = [id \in IdSpace |-> IF id = RegistryUser.id THEN stored ELSE <<>>]
    /\ now = 0
    /\ ownerCache = <<>>
    /\ settings = DefaultSettings
    /\ collections = NoCollections
    /\ proc \in [Procs -> [pc : {"start"}, call : RaceCalls, read : {<<>>},
                           readAt : {0}, status : {OK}]]
    /\ writes = <<>>

NextRace ==
    \/ \E p \in Procs : RaceRead(p)
    \/ \E p \in Procs : RaceWrite(p)
    \/ \E p \in Procs : RaceFail(p)

SpecRace == InitRace /\ [][NextRace]_vars

\* the list with the change of one call applied to it
Applied(call, list) ==
    IF call.kind = "create"
    THEN Append(list, AccessTokenRecord(call.accessToken, call.description))
    ELSE DeletedList(list, call.accessToken)

\* both calls wrote, and the later writer had read before the earlier one wrote
Clobbered ==
    /\ Len(writes) = 2
    /\ proc[writes[2]].readAt = 0

\* C6: Create and Delete read the whole list and write the whole list back
\* with no lock or version check: when two calls for one user both succeed and
\* the later writer read the list before the earlier one wrote, the stored list
\* is the list both calls read with only the later writer's change applied.
C6_LaterWriteClobbers ==
    Clobbered =>
        LET earlier == proc[writes[1]]
            later == proc[writes[2]]
        IN  /\ earlier.status = OK /\ later.status = OK
            /\ earlier.read = later.read
            /\ tokens[RegistryUser.id] = Applied(later.call, earlier.read)

\* the number of records of a list that carry this token
Matches(list, accessToken) ==
    Cardinality({i \in 1..Len(list) : list[i].accessToken = accessToken})

\* C6 witness: both calls succeeded and an update is lost: the final list is
\* not the one the two calls leave when run one after the other, and the
\* record the earlier call created is not in it, or a token the earlier call
\* deleted is in it again
C6_Witness ==
    /\ Clobbered
    /\ proc[1].status = OK /\ proc[2].status = OK
    /\ LET earlier == proc[writes[1]]
           later == proc[writes[2]]
           stored == tokens[RegistryUser.id]
       IN  /\ stored # Applied(later.call, Applied(earlier.call, earlier.read))
           /\ \/ /\ earlier.call.kind = "create"
                 /\ Matches(stored, earlier.call.accessToken) = 0
              \/ /\ earlier.call.kind = "delete"
                 /\ Matches(earlier.read, earlier.call.accessToken) > 0
                 /\ Matches(stored, earlier.call.accessToken) > 0

-----------------------------------------------------------------------------
(* Access token registry: the handlers *)

\* the store call of a registry handler that fails, if any
StoreFaults == {"none", "read", "write"}

\* the outcome of a registry handler: the status, the response message and
\* the registry it leaves
RegistryOutcome(status, response, registry) ==
    [status |-> status, response |-> response, tokens |-> registry]

RegistryReject(status) == RegistryOutcome(status, <<>>, tokens)

\* the v1pb.UserAccessToken of a record whose token parsed
UserAccessToken(record) ==
    [accessToken |-> record.accessToken, description |-> record.description,
     issuedAt |-> record.accessToken.iat, expiresAt |-> record.accessToken.exp]

\* the comparison handed to slices.SortFunc
SortCmp(i, j) == i.issuedAt - j.issuedAt

RECURSIVE SortInsert(_, _)
\* the inner loop of the insertion sort: x moves left while it compares below
\* its left neighbour
SortInsert(sorted, x) ==
    IF sorted = <<>> THEN <<x>>
    ELSE IF SortCmp(x, sorted[Len(sorted)]) < 0
    THEN Append(SortInsert(SubSeq(sorted, 1, Len(sorted) - 1), x), sorted[Len(sorted)])
    ELSE Append(sorted, x)

RECURSIVE SortFunc(_)
\* slices.SortFunc on a list shorter than 12, which is an insertion sort
SortFunc(list) ==
    IF list = <<>> THEN <<>>
    ELSE SortInsert(SortFunc(SubSeq(list, 1, Len(list) - 1)), list[Len(list)])

RECURSIVE ParsedTokens(_)
\* the loop of ListUserAccessTokens: the records whose token parses, in order
ParsedTokens(userAccessTokens) ==
    IF userAccessTokens = <<>> THEN <<>>
    ELSE IF ParseWithClaims(Head(userAccessTokens).accessToken, now)
    THEN <<UserAccessToken(Head(userAccessTokens))>> \o ParsedTokens(Tail(userAccessTokens))
    ELSE ParsedTokens(Tail(userAccessTokens))

\* a faulty list: it serves the list of the requested id to any caller
ListUserAccessTokensOfRequested(caller, id, fault) ==
    IF fault = "read"
    THEN RegistryReject(Errorf("Internal", "failed to list access tokens", <<>>))
    ELSE RegistryOutcome(OK, SortFunc(ParsedTokens(tokens[id])), tokens)

\* caller is the row of the current user
ListUserAccessTokens(caller, id, fault) ==
    IF caller.id # id
    THEN RegistryReject(Errorf("PermissionDenied", "Permission denied", <<>>))
    ELSE IF fault = "read"
    THEN RegistryReject(Errorf("Internal", "failed to list access tokens", <<>>))
    ELSE RegistryOutcome(OK, SortFunc(ParsedTokens(tokens[caller.id])), tokens)

\* UpsertAccessTokenToStore: the error ("" when none) and the registry it leaves
UpsertAccessTokenToStore(user, accessToken, description, fault) ==
    IF fault = "read"
    THEN [err |-> "failed to get user access tokens", tokens |-> tokens]
    ELSE IF fault = "write"
    THEN [err |-> "failed to upsert user setting", tokens |-> tokens]
    ELSE [err |-> "",
          tokens |-> [tokens EXCEPT ![user.id] = UpsertedList(@, accessToken, description)]]

\* caller is the row of the current user; expiresAt is ZeroTime when the
\* request carries none
CreateUserAccessToken(caller, id, expiresAt, description, fault) ==
    LET accessToken == GenerateAccessToken(caller.email, caller.id, expiresAt, Secret, now)
        upsert == UpsertAccessTokenToStore(caller, accessToken, description, fault)
    IN  IF caller.id # id
        THEN RegistryReject(Errorf("PermissionDenied", "Permission denied", <<>>))
        ELSE IF ~ParseWithClaims(accessToken, now)
        THEN RegistryReject(Errorf("Internal", "failed to parse access token", <<>>))
        ELSE IF upsert.err # ""
        THEN RegistryReject(Errorf("Internal", "failed to upsert access token to store", <<>>))
        ELSE RegistryOutcome(OK,
                             <<UserAccessToken(AccessTokenRecord(accessToken, description))>>,
                             upsert.tokens)

\* caller is the row of the current user
DeleteUserAccessToken(caller, accessToken, fault) ==
    IF fault = "read"
    THEN RegistryReject(Errorf("Internal", "failed to list access tokens", <<>>))
    ELSE IF fault = "write"
    THEN RegistryReject(Errorf("Internal", "failed to upsert user setting", <<>>))
    ELSE RegistryOutcome(OK, <<>>,
                         [tokens EXCEPT ![caller.id] = DeletedList(@, accessToken)])

-----------------------------------------------------------------------------
(* The registry of one user, over an arbitrary stored list *)

\* a token minted for the user at second 0, with no expiry
Minted0 == GenerateAccessToken(RegistryUser.email, RegistryUser.id, ZeroTime, Secret, 0)

\* the records the list may hold at the start: an API token, a session token,
\* and tokens that no longer parse: signed under an earlier secret, with
\* another key id, with a key id that is not a string, with another algorithm
StoredAtStart ==
    {AccessTokenRecord(Minted0, "ci"),
     AccessTokenRecord(GenerateAccessToken(RegistryUser.email, RegistryUser.id,
                                           AccessTokenDuration, Secret, 0), "user login"),
     AccessTokenRecord([Minted0 EXCEPT !.key = "earlier-secret"], "ci"),
     AccessTokenRecord([Minted0 EXCEPT !.kid = <<"string", "v2">>], "ci"),
     AccessTokenRecord([Minted0 EXCEPT !.kid = <<"number", "1">>], "ci"),
     AccessTokenRecord([Minted0 EXCEPT !.alg = "HS384"], "ci")}

\* the expiry a create request asks for
ExpiresAts == {ZeroTime} \cup (0..MaxTime)

Descriptions == {"ci"}

\* a token minted for another user: the list of RegistryUser never holds it
NeverStored == GenerateAccessToken("b@x.io", 2, ZeroTime, Secret, 0)

\* the tokens a delete request names: those of the stored records, and one more
DeleteTokens(list) == {list[i].accessToken : i \in 1..Len(list)} \cup {NeverStored}

\* the state a handled registry request leaves; the guard keeps the lists
\* inside the bound
HandleRegistry(outcome) ==
    /\ \A id \in IdSpace : Len(outcome.tokens[id]) <= MaxLen
    /\ tokens' = outcome.tokens
    /\ UNCHANGED <<users, nextId, security, idps, settings, collections, now, ownerCache, proc, writes>>

InitRegistry ==
    /\ users = {RegistryUser}
    /\ nextId = 2
    /\ security = [disallowUserRegistration |-> FALSE, disallowPasswordAuth |-> FALSE]
    /\ idps = <<Idp1>>
    /\ \E stored \in SeqsUpTo(StoredAtStart, MaxLen),
          other \in {<<>>, <<AccessTokenRecord(NeverStored, "ci")>>} :
          tokens = [id \in IdSpace |-> IF id = RegistryUser.id THEN stored
                                       ELSE IF id = NeverStored.sub THEN other
                                       ELSE <<>>]
    /\ now = 0
    /\ ownerCache = <<>>
    /\ settings = DefaultSettings
    /\ collections = NoCollections
    /\ proc = <<>>
    /\ writes = <<>>

NextRegistry ==
    \/ \E caller \in users, id \in UserIds, fault \in StoreFaults :
          HandleRegistry(ListUserAccessTokens(caller, id, fault))
    \/ \E caller \in users, id \in UserIds, expiresAt \in ExpiresAts,
          description \in Descriptions, fault \in StoreFaults :
          HandleRegistry(CreateUserAccessToken(caller, id, expiresAt, description, fault))
    \/ \E caller \in users, fault \in StoreFaults :
          \E accessToken \in DeleteTokens(tokens[caller.id]) :
              HandleRegistry(DeleteUserAccessToken(caller, accessToken, fault))
    \/ Tick

SpecRegistry == InitRegistry /\ [][NextRegistry]_vars

-----------------------------------------------------------------------------
(* Claims about the registry, under SpecRegistry *)

\* current validation, in the words of the contract: HS256, key id "v1", a
\* signature under the current secret, and not expired
PassesValidation(token) ==
    /\ token.alg = "HS256"
    /\ token.kid = <<"string", "v1">>
    /\ token.key = Secret
    /\ (token.exp = <<>> \/ now < token.exp[1])

\* the number of places of a list that hold x
Count(list, x) == Cardinality({i \in 1..Len(list) : list[i] = x})

\* the stored record a response entry was made from
RecordOf(entry) == AccessTokenRecord(entry.accessToken, entry.description)

\* the stored records of a response, in its order
RecordsOf(response) == [i \in 1..Len(response) |-> RecordOf(response[i])]

\* C7: ListUserAccessTokens succeeds and returns exactly the stored records
\* whose token passes current validation, each as often as it is stored and
\* with the issued-at and expires-at of its token, and no other record; and no
\* call of it, failed ones included, changes the stored lists.
C7_ListPrunesReadOnly ==
    \A caller \in users :
        /\ \A id \in UserIds, fault \in StoreFaults :
              ListUserAccessTokens(caller, id, fault).tokens = tokens
        /\ LET stored == tokens[caller.id]
               o == ListUserAccessTokens(caller, caller.id, "none")
           IN  /\ o.status = OK
               /\ \A i \in 1..Len(stored) :
                     Count(RecordsOf(o.response), stored[i]) =
                         IF PassesValidation(stored[i].accessToken)
                         THEN Count(stored, stored[i]) ELSE 0
               /\ \A i \in 1..Len(o.response) :
                     /\ Count(stored, RecordOf(o.response[i])) > 0
                     /\ o.response[i].issuedAt = o.response[i].accessToken.iat
                     /\ o.response[i].expiresAt = o.response[i].accessToken.exp

\* C7 witness: the stored list holds a record that passes validation, an
\* expired one and one with a bad signature, and the list call returns one
\* record and leaves the three stored
C7_Witness ==
    \E caller \in users :
        LET stored == tokens[caller.id]
            o == ListUserAccessTokens(caller, caller.id, "none")
        IN  /\ Len(stored) = 3 /\ Len(o.response) = 1
            /\ o.tokens[caller.id] = stored
            /\ \E i, j, k \in 1..Len(stored) :
                  /\ PassesValidation(stored[i].accessToken)
                  /\ o.response[1].accessToken = stored[i].accessToken
                  /\ stored[j].accessToken.exp # <<>> /\ stored[j].accessToken.exp[1] <= now
                  /\ stored[j].accessToken.key = Secret
                  /\ stored[k].accessToken.key # Secret

\* C8: in the list ListUserAccessTokens returns, every record is issued at
\* or after the record that follows it (descending order of issued-at).
C8_ListDescending ==
    \A caller \in users :
        LET response == ListUserAccessTokens(caller, caller.id, "none").response
        IN  \A i \in 1..(Len(response) - 1) :
                response[i].issuedAt >= response[i + 1].issuedAt

RECURSIVE RemoveFirst(_, _)
\* the list without its first record that carries the token
RemoveFirst(list, accessToken) ==
    IF list = <<>> THEN <<>>
    ELSE IF list[1].accessToken = accessToken THEN Tail(list)
    ELSE <<list[1]>> \o RemoveFirst(Tail(list), accessToken)

RECURSIVE RemoveEvery(_, _)
\* the list without every record that carries the token
RemoveEvery(list, accessToken) ==
    IF list = <<>> THEN <<>>
    ELSE IF list[1].accessToken = accessToken THEN RemoveEvery(Tail(list), accessToken)
    ELSE <<list[1]>> \o RemoveEvery(Tail(list), accessToken)

\* C9, as stated: DeleteUserAccessToken succeeds and writes back the list
\* without the first record that carries the requested token, so that of k >= 1
\* such records k-1 stay, and a token no record carries leaves the list as it was.
C9_DeleteRemovesFirstMatch ==
    \A caller \in users :
        \A accessToken \in DeleteTokens(tokens[caller.id]) :
            LET stored == tokens[caller.id]
                o == DeleteUserAccessToken(caller, accessToken, "none")
            IN  /\ o.status = OK
                /\ o.tokens[caller.id] = RemoveFirst(stored, accessToken)
                /\ Matches(stored, accessToken) >= 1 =>
                      Matches(o.tokens[caller.id], accessToken) = Matches(stored, accessToken) - 1

\* C9, amended: DeleteUserAccessToken succeeds and writes back the list
\* without every record that carries the requested token, the other records in
\* their order: of k >= 1 such records none stays, a token no record carries
\* leaves the list as it was, and no other user's list changes.
C9_DeleteRemovesEveryMatch ==
    \A caller \in users :
        \A accessToken \in DeleteTokens(tokens[caller.id]) :
            LET stored == tokens[caller.id]
                o == DeleteUserAccessToken(caller, accessToken, "none")
            IN  /\ o.status = OK
                /\ o.tokens = [tokens EXCEPT ![caller.id] = RemoveEvery(stored, accessToken)]
                /\ Matches(o.tokens[caller.id], accessToken) = 0
                /\ Matches(stored, accessToken) = 0 => o.tokens[caller.id] = stored

\* C9 witness: two stored records carry the requested token and a third does
\* not; after the delete only the third is stored
C9_Witness ==
    \E caller \in users :
        \E accessToken \in DeleteTokens(tokens[caller.id]) :
            LET stored == tokens[caller.id]
                o == DeleteUserAccessToken(caller, accessToken, "none")
            IN  /\ Len(stored) = 3 /\ Matches(stored, accessToken) = 2
                /\ o.status = OK
                /\ Len(o.tokens[caller.id]) = 1
                /\ o.tokens[caller.id][1].accessToken # accessToken

\* C10: a CreateUserAccessToken that succeeds, and an UpsertAccessTokenToStore
\* that returns no error, leave the user's list equal to the stored list
\* followed by the one record of the new token and the description: every
\* stored record stays, at its place, and no other user's list changes.
C10_CreateAppends ==
    \A caller \in users, description \in Descriptions :
        /\ \A expiresAt \in ExpiresAts, fault \in StoreFaults :
              LET o == CreateUserAccessToken(caller, caller.id, expiresAt, description, fault)
                  minted == GenerateAccessToken(caller.email, caller.id, expiresAt, Secret, now)
              IN  IF o.status = OK
                  THEN o.tokens = [tokens EXCEPT ![caller.id] =
                                      tokens[caller.id] \o
                                      <<[accessToken |-> minted, description |-> description]>>]
                  ELSE o.tokens = tokens
        /\ \A accessToken \in DeleteTokens(tokens[caller.id]) :
              LET r == UpsertAccessTokenToStore(caller, accessToken, description, "none")
              IN  /\ r.err = ""
                  /\ r.tokens = [tokens EXCEPT ![caller.id] =
                                    tokens[caller.id] \o
                                    <<[accessToken |-> accessToken, description |-> description]>>]

\* C10 witness: the stored list already holds a record with the token and the
\* description of the request, and the create adds a second such record at the end
C10_Witness ==
    \E caller \in users, expiresAt \in ExpiresAts, description \in Descriptions :
        LET stored == tokens[caller.id]
            o == CreateUserAccessToken(caller, caller.id, expiresAt, description, "none")
            new == o.tokens[caller.id]
        IN  /\ o.status = OK
            /\ Len(stored) >= 1 /\ Len(new) = Len(stored) + 1
            /\ \E i \in 1..Len(stored) : stored[i] = new[Len(new)]
            /\ Count(new, new[Len(new)]) = Count(stored, new[Len(new)]) + 1

\* tokens signed with the current secret under every header: the algorithm
\* HS256 or another, the key id "v1", another string, not a string, or absent
HeaderVariants ==
    {[Minted0 EXCEPT !.alg = alg, !.kid = kid] :
        alg \in {"HS256", "HS384", "none"},
        kid \in {<<"string", "v1">>, <<"string", "v2">>, <<"string", "">>,
                 <<"number", "1">>, <<"absent", "">>}}

\* the tokens of the stored records of every user
StoredTokens ==
    UNION {{tokens[id][i].accessToken : i \in 1..Len(tokens[id])} : id \in IdSpace}

\* the header names HS256 and the key id "v1", as a string
HeaderAccepted(token) == token.alg = "HS256" /\ token.kid = <<"string", "v1">>

\* C19: for every token, those signed with the current secret included: the
\* key function hands out the signing secret exactly when the header algorithm
\* is HS256 and the key id is the string "v1"; a token with another algorithm,
\* another key id, a key id that is not a string or no key id fails validation
\* at every time, and ListUserAccessTokens returns no record that carries one.
C19_AlgAndKidRejected ==
    /\ \A token \in HeaderVariants \cup StoredTokens :
          /\ HeaderAccepted(token) <=> KeyFunc(token) = <<Secret>>
          /\ ~HeaderAccepted(token) =>
                /\ KeyFunc(token) = <<>>
                /\ \A t \in 0..MaxTime : ~ParseWithClaims(token, t)
          /\ (HeaderAccepted(token) /\ token.key = Secret /\ token.exp = <<>>) =>
                \A t \in 0..MaxTime : ParseWithClaims(token, t)
    /\ \A caller \in users :
          LET response == ListUserAccessTokens(caller, caller.id, "none").response
          IN  \A i \in 1..Len(response) : HeaderAccepted(response[i].accessToken)

\* C19 witness: the stored list holds three tokens signed with the current
\* secret, one with another algorithm, one with another key id and one whose
\* key id is not a string, and the list call returns none of them
C19_Witness ==
    \E caller \in users :
        LET stored == tokens[caller.id]
        IN  /\ Len(stored) = 3
            /\ \A i \in 1..3 : stored[i].accessToken.key = Secret
            /\ \E i \in 1..3 : stored[i].accessToken.alg # "HS256"
            /\ \E i \in 1..3 : stored[i].accessToken.kid = <<"string", "v2">>
            /\ \E i \in 1..3 : stored[i].accessToken.kid[1] # "string"
            /\ ListUserAccessTokens(caller, caller.id, "none").status = OK
            /\ ListUserAccessTokens(caller, caller.id, "none").response = <<>>

\* the list call of the user returns the record of this token
Listed(caller, token) ==
    LET response == ListUserAccessTokens(caller, caller.id, "none").response
    IN  \E i \in 1..Len(response) : response[i].accessToken = token

\* the stored tokens of the user with an accepted header and the current secret
WellSigned(caller) ==
    {tokens[caller.id][i].accessToken : i \in 1..Len(tokens[caller.id])}
        \cap {token \in StoredTokens : HeaderAccepted(token) /\ token.key = Secret}

\* C20: a token created with an expiry carries an expires-at claim, validates
\* at every time before that claim and fails at every time after it; a token created with no expiry
\* is always created, carries no expires-at claim and validates at every
\* later time; the list call returns a stored, correctly signed token while
\* the clock is before its expiry or it has none, and omits it once the clock
\* has passed its expiry.
C20_ExpiryOverTime ==
    \A caller \in users :
        /\ \A expiresAt \in ExpiresAts :
              LET created == CreateUserAccessToken(caller, caller.id, expiresAt, "ci", "none")
                  token == created.response[1].accessToken
              IN  /\ expiresAt = ZeroTime => created.status = OK
                  /\ (created.status = OK /\ expiresAt = ZeroTime) =>
                        /\ token.exp = <<>>
                        /\ created.response[1].expiresAt = <<>>
                        /\ \A t \in now..(MaxTime + 1) : ParseWithClaims(token, t)
                  /\ (created.status = OK /\ expiresAt # ZeroTime) =>
                        /\ token.exp # <<>>
                        /\ created.response[1].expiresAt = token.exp
                        /\ \A t \in 0..(MaxTime + 1) :
                              /\ t < token.exp[1] => ParseWithClaims(token, t)
                              /\ t > token.exp[1] => ~ParseWithClaims(token, t)
        /\ \A token \in WellSigned(caller) :
              /\ token.exp = <<>> => Listed(caller, token)
              /\ (token.exp # <<>> /\ now < token.exp[1]) => Listed(caller, token)
              /\ (token.exp # <<>> /\ now > token.exp[1]) => ~Listed(caller, token)

\* C20 witness: the clock has passed the expiry of a token created with one,
\* which the list call now omits, while a token created earlier with no
\* expiry is still listed
C20_Witness ==
    \E caller \in users :
        /\ \E token \in WellSigned(caller) :
              /\ token.exp # <<>> /\ token.iat < token.exp[1] /\ now > token.exp[1]
              /\ ~Listed(caller, token)
        /\ \E token \in WellSigned(caller) :
              /\ token.exp = <<>> /\ token.iat < now
              /\ Listed(caller, token)

\* s is the whole second that t falls in
WholeSecondOf(t, s) ==
    /\ s \in 0..t
    /\ s % TimePrecision = 0
    /\ t - s < TimePrecision

\* what a create request with this expiry returns, when nothing fails
Created(caller, expiresAt) == CreateUserAccessToken(caller, caller.id, expiresAt, "ci", "none")

\* C21 as stated: for every expiry, none or in the future, the create call
\* validates the token it issued and returns the subject, an issue time in the
\* current second and the requested expiry itself (none when none was asked).
C21_RoundTripExact ==
    \A caller \in users, expiresAt \in ExpiresAts :
        (expiresAt = ZeroTime \/ now < expiresAt) =>
            LET r == Created(caller, expiresAt).response[1]
            IN  /\ Created(caller, expiresAt).status = OK
                /\ r.accessToken.name = caller.email
                /\ r.accessToken.sub = caller.id
                /\ WholeSecondOf(now, r.issuedAt)
                /\ r.expiresAt = IF expiresAt = ZeroTime THEN <<>> ELSE <<expiresAt>>

\* C21, amended: a freshly issued token carries the subject email and user id,
\* the issue time truncated to the whole second and, when an expiry was
\* requested, that expiry truncated to the whole second; validating it with
\* the same secret succeeds exactly when no expiry was requested or the
\* truncated expiry is after the current time, and the create call then
\* returns the truncated times as IssuedAt and ExpiresAt.
C21_RoundTripTruncated ==
    /\ \A email \in Emails, id \in UserIds, expiresAt \in ExpiresAts :
          LET token == GenerateAccessToken(email, id, expiresAt, Secret, now)
          IN  /\ token.name = email /\ token.sub = id
              /\ WholeSecondOf(now, token.iat)
              /\ IF expiresAt = ZeroTime
                 THEN token.exp = <<>> /\ ParseWithClaims(token, now)
                 ELSE /\ Len(token.exp) = 1
                      /\ WholeSecondOf(expiresAt, token.exp[1])
                      /\ ParseWithClaims(token, now) <=> now < token.exp[1]
    /\ \A caller \in users, expiresAt \in ExpiresAts :
          LET r == Created(caller, expiresAt).response[1]
              token == GenerateAccessToken(caller.email, caller.id, expiresAt, Secret, now)
          IN  IF ParseWithClaims(token, now)
              THEN /\ Created(caller, expiresAt).status = OK
                   /\ r.accessToken = token
                   /\ r.issuedAt = token.iat
                   /\ r.expiresAt = token.exp
              ELSE /\ Created(caller, expiresAt).status.code = "Internal"
                   /\ Created(caller, expiresAt).tokens = tokens

\* C21 witness: in the middle of a second, a create request whose expiry is in
\* the middle of a later second is answered with both times truncated, and one
\* whose expiry is later in the current second is refused; the stored list
\* holds a token created with an expiry
C21_Witness ==
    \E caller \in users, expiresAt \in ExpiresAts :
        /\ now % TimePrecision # 0
        /\ expiresAt # ZeroTime /\ expiresAt % TimePrecision # 0
        /\ Created(caller, expiresAt).status = OK
        /\ Created(caller, expiresAt).response[1].issuedAt < now
        /\ Created(caller, expiresAt).response[1].expiresAt[1] < expiresAt
        /\ Created(caller, now).status.code = "Internal"
        /\ \E i \in 1..Len(tokens[caller.id]) :
              /\ tokens[caller.id][i].description = "ci"
              /\ tokens[caller.id][i].accessToken.exp # <<>>

-----------------------------------------------------------------------------
(* The instance owner, with concurrent calls of GetInstanceOwner *)

FindRole(role) == [id |-> <<>>, email |-> <<>>, role |-> <<role>>]

\* the v1pb.User of a row
convertUserFromStore(user) ==
    [id |-> user.id, state |-> user.rowStatus, role |-> user.role,
     email |-> user.email, nickname |-> user.nickname]

\* GetInstanceOwner up to its store call: with the cache set it returns the
\* cached owner, otherwise it goes on to query the store
OwnerCall(p) ==
    /\ proc[p].pc = "idle"
    /\ Len(writes) < MaxLen
    /\ IF ownerCache # <<>>
       THEN /\ writes' = Append(writes, [owner |-> ownerCache, after |-> Len(writes),
                                         queried |-> FALSE])
            /\ UNCHANGED proc
       ELSE /\ proc' = [proc EXCEPT ![p] = [pc |-> "query", after |-> Len(writes)]]
            /\ UNCHANGED writes
    /\ UNCHANGED <<users, nextId, security, idps, settings, collections, tokens, now, ownerCache>>

\* GetInstanceOwner from its store call on: with no admin it returns nil and
\* leaves the cache, otherwise it caches the admin the store returned
OwnerQuery(p) ==
    /\ proc[p].pc = "query"
    /\ proc' = [proc EXCEPT ![p] = [pc |-> "idle", after |-> 0]]
    /\ IF ListUsers(users, FindRole(RoleAdmin)) = {}
       THEN /\ writes' = Append(writes, [owner |-> <<>>, after |-> proc[p].after,
                                         queried |-> TRUE])
            /\ UNCHANGED ownerCache
       ELSE \E user \in ListUsers(users, FindRole(RoleAdmin)) :
               /\ ownerCache' = <<convertUserFromStore(user)>>
               /\ writes' = Append(writes, [owner |-> <<convertUserFromStore(user)>>,
                                            after |-> proc[p].after, queried |-> TRUE])
    /\ UNCHANGED <<users, nextId, security, idps, settings, collections, tokens, now>>

InitOwner ==
    /\ users = {}
    /\ nextId = 1
    /\ security = [disallowUserRegistration |-> FALSE, disallowPasswordAuth |-> FALSE]
    /\ idps = <<Idp1>>
    /\ tokens = [id \in IdSpace |-> <<>>]
    /\ now = 0
    /\ ownerCache = <<>>
    /\ settings = DefaultSettings
    /\ collections = NoCollections
    /\ proc = [p \in Procs |-> [pc |-> "idle", after |-> 0]]
    /\ writes = <<>>

NextOwner ==
    \/ \E p \in Procs : OwnerCall(p)
    \/ \E p \in Procs : OwnerQuery(p)
    \/ \E email \in Emails, nickname \in Nicknames, password \in SignUpPasswords,
          lic \in SeatLicenses :
          Handle(SignUp(email, nickname, password, "none", lic))
    \/ \E email \in Emails, nickname \in Nicknames, password \in SignUpPasswords,
          lic \in SeatLicenses :
          Handle(CreateUser(email, nickname, password, lic))
    \/ \E caller \in users, id \in UserIds, paths \in UpdateMasks, email \in Emails,
          nickname \in Nicknames :
          Handle(UpdateUser(caller, id, paths, email, nickname))
    \/ \E caller \in users, id \in UserIds : Handle(DeleteUser(caller, id))

SpecOwner == InitOwner /\ [][NextOwner]_vars

\* C23: once GetInstanceOwner has returned an owner, every call that starts
\* after that return returns the same owner, and does so without a store query.
C23_OwnerMemoized ==
    \A i \in 1..Len(writes), j \in 1..Len(writes) :
        (writes[j].owner # <<>> /\ j <= writes[i].after) =>
            /\ writes[i].owner = writes[j].owner
            /\ ~writes[i].queried

-----------------------------------------------------------------------------
(* The OAuth2 adapter against a provider *)

Codes == {"test-code", "stale-code"}

ProviderAccessTokens == {"test-access-token", "other-access-token"}

RedirectUri == "https://example.com/oauth/callback"

\* what a token endpoint may answer: a token, a refusal, a body without a token
TokenReplies ==
    {[status |-> 200, body |-> [access_token |-> t, token_type |-> "Bearer"]] :
        t \in ProviderAccessTokens}
    \cup {[status |-> 400, body |-> [error |-> "invalid_grant"]],
          [status |-> 200, body |-> [token_type |-> "Bearer"]]}

\* a token endpoint: its answer to each code
TokenEndpoints == [Codes -> TokenReplies]

\* the flat user-info objects a provider may return
InfoObjects ==
    {[email |-> "john.doe@example.com", name |-> "John Doe"],
     [login |-> "jdoe", name |-> "John Doe"],
     [email |-> "a@x.io", nickname |-> "A"],
     [name |-> "John Doe"]}

InfoReplies ==
    {[status |-> 200, body |-> json] : json \in InfoObjects}
    \cup {[status |-> 401, body |-> [error |-> "invalid_token"]]}

\* a user-info endpoint: its answer to each bearer token
InfoEndpoints == [ProviderAccessTokens -> InfoReplies]

\* the authorization-code exchange the adapter sends to the token URL
TokenRequest(config, redirectUri, code) ==
    [method |-> "POST", url |-> config.tokenUrl,
     clientId |-> config.clientId, clientSecret |-> config.clientSecret,
     form |-> [grant_type |-> "authorization_code", code |-> code,
               redirect_uri |-> redirectUri]]

\* the token endpoint serves an authorization-code grant sent as a POST
ServeToken(endpoint, request) ==
    IF request.method = "POST" /\ request.form.grant_type = "authorization_code"
    THEN endpoint[request.form.code]
    ELSE [status |-> 400, body |-> [error |-> "unsupported_grant_type"]]

\* IdentityProvider.ExchangeToken: the provider access token, or an error
ExchangeToken(config, redirectUri, code, endpoint) ==
    LET reply == ServeToken(endpoint, TokenRequest(config, redirectUri, code))
    IN  IF reply.status # 200
        THEN [err |-> "failed to exchange access token", token |-> ""]
        ELSE IF "access_token" \notin DOMAIN reply.body
        THEN [err |-> "missing access token from authorization response", token |-> ""]
        ELSE [err |-> "", token |-> reply.body.access_token]

\* IdentityProvider.UserInfo from its request on: the bearer-authenticated
\* fetch, then the extraction of the mapped fields
FetchUserInfo(config, token, endpoint) ==
    LET reply == endpoint[token]
    IN  IF reply.status # 200
        THEN [err |-> "failed to get user information", userInfo |-> <<>>]
        ELSE [err |-> "", userInfo |-> <<UserInfo(config, reply.body)>>]

FieldMappings == [identifier : {"", "email", "login"}, displayName : {"", "name", "nickname"}]

\* the configurations an identity provider may be stored with
AdapterConfigs ==
    {[clientId |-> "test-client-id", clientSecret |-> "test-client-secret",
      authUrl |-> a, tokenUrl |-> t, userInfoUrl |-> u, fieldMapping |-> m] :
        a \in {"", "https://example.com/auth"}, t \in {"", "https://example.com/token"},
        u \in {"", "https://example.com/api/user"}, m \in FieldMappings}

\* the adapter is constructed from the stored configuration
Construct ==
    /\ proc.pc = "new"
    /\ proc' = [proc EXCEPT !.pc = IF NewIdentityProvider(idps[1].config) = ""
                                   THEN "built" ELSE "failed",
                            !.err = NewIdentityProvider(idps[1].config)]
    /\ UNCHANGED <<users, nextId, security, idps, settings, collections, tokens, now, ownerCache, writes>>

\* the adapter exchanges a code at a token endpoint
Exchange ==
    /\ proc.pc = "built"
    /\ \E code \in Codes, endpoint \in TokenEndpoints :
          LET r == ExchangeToken(idps[1].config, RedirectUri, code, endpoint)
          IN  proc' = [proc EXCEPT !.pc = IF r.err = "" THEN "exchanged" ELSE "failed",
                                   !.err = r.err, !.token = r.token,
                                   !.answered = <<endpoint[code]>>]
    /\ UNCHANGED <<users, nextId, security, idps, settings, collections, tokens, now, ownerCache, writes>>

\* the adapter fetches the user info with the token it was given
Fetch ==
    /\ proc.pc = "exchanged"
    /\ \E endpoint \in InfoEndpoints :
          LET r == FetchUserInfo(idps[1].config, proc.token, endpoint)
          IN  proc' = [proc EXCEPT !.pc = IF r.err = "" THEN "done" ELSE "failed",
                                   !.err = r.err, !.userInfo = r.userInfo,
                                   !.answered = <<endpoint[proc.token]>>]
    /\ UNCHANGED <<users, nextId, security, idps, settings, collections, tokens, now, ownerCache, writes>>

InitAdapter ==
    /\ users = {}
    /\ nextId = 1
    /\ security = [disallowUserRegistration |-> FALSE, disallowPasswordAuth |-> FALSE]
    /\ idps \in {<<[Idp1 EXCEPT !.config = config]>> : config \in AdapterConfigs}
    /\ tokens = [id \in IdSpace |-> <<>>]
    /\ now = 0
    /\ ownerCache = <<>>
    /\ settings = DefaultSettings
    /\ collections = NoCollections
    /\ proc = [pc |-> "new", err |-> "", token |-> "", userInfo |-> <<>>, answered |-> <<>>]
    /\ writes = <<>>

NextAdapter == Construct \/ Exchange \/ Fetch

SpecAdapter == InitAdapter /\ [][NextAdapter]_vars

\* the three fields NewIdentityProvider requires are set
RequiredFieldsSet(config) ==
    config.tokenUrl # "" /\ config.userInfoUrl # "" /\ config.fieldMapping.identifier # ""

\* C24: NewIdentityProvider returns the adapter exactly when the token URL, the
\* user-info URL and the identifier mapping are all set, whatever the
\* authorization URL is; otherwise it returns the error that names a field
\* that is empty, and the one empty field when only one is; an adapter that was
\* constructed and used has all three; and SignInWithSSO with an incomplete
\* configuration returns Internal with that error before any provider call.
C24_ConstructionFailsEagerly ==
    /\ \A config \in AdapterConfigs :
          LET err == NewIdentityProvider(config)
          IN  /\ err = "" <=> RequiredFieldsSet(config)
              /\ err # "" =>
                    \/ config.tokenUrl = ""
                       /\ err = "the field \"tokenUrl\" is empty but required"
                    \/ config.userInfoUrl = ""
                       /\ err = "the field \"userInfoUrl\" is empty but required"
                    \/ config.fieldMapping.identifier = ""
                       /\ err = "the field \"fieldMapping.identifier\" is empty but required"
    /\ proc.pc \in {"built", "exchanged", "done"} \/ proc.answered # <<>> =>
          RequiredFieldsSet(idps[1].config)
    /\ (proc.pc = "failed" /\ ~RequiredFieldsSet(idps[1].config)) =>
          proc.answered = <<>> /\ proc.err # ""
    /\ \A answer \in ProviderAnswers, fault \in Faults, lic \in Licenses :
          (lic.sso /\ ~RequiredFieldsSet(idps[1].config)) =>
              LET o == SignInWithSSO("idp1", answer, fault, lic)
              IN  /\ o.status.code = "Internal"
                  /\ Len(o.status.args) = 1 /\ o.status.args[1] # ""
                  /\ o.calls = <<"GetWorkspaceSetting", "NewIdentityProvider">>
                  /\ o.users = users /\ o.tokens = tokens /\ o.cookie = <<>>

\* C24 witness: a configuration with an empty authorization URL and an empty
\* user-info URL was refused at construction with the error naming the
\* user-info URL, no provider call was made, and SignInWithSSO returns Internal
C24_Witness ==
    /\ idps[1].config.authUrl = "" /\ idps[1].config.userInfoUrl = ""
    /\ idps[1].config.tokenUrl # "" /\ idps[1].config.fieldMapping.identifier # ""
    /\ proc.pc = "failed" /\ proc.answered = <<>>
    /\ proc.err = "the field \"userInfoUrl\" is empty but required"
    /\ \E answer \in ProviderAnswers, lic \in Licenses :
          /\ lic.sso /\ answer.exchange /\ answer.fetch
          /\ SignInWithSSO("idp1", answer, "none", lic).status.code = "Internal"
          /\ SignInWithSSO("idp1", answer, "none", lic).calls =
                <<"GetWorkspaceSetting", "NewIdentityProvider">>

\* the value of a key of a flat object, "" when the object has no such key
ValueOf(json, key) == IF key \in DOMAIN json THEN json[key] ELSE ""

\* C25: ExchangeToken sends the code in an authorization-code grant as a POST
\* and returns exactly the access_token the token endpoint answers for that
\* code, and an error when the endpoint refuses or answers without a token;
\* UserInfo returns as identifier the value of the key the field mapping names
\* as identifier and as display name the value of the key it names as display
\* name, for every flat user-info object and field mapping.
C25_AdapterResults ==
    /\ \A config \in AdapterConfigs, code \in Codes, endpoint \in TokenEndpoints :
          LET r == ExchangeToken(config, RedirectUri, code, endpoint)
              sent == TokenRequest(config, RedirectUri, code)
          IN  /\ sent.method = "POST" /\ sent.form.grant_type = "authorization_code"
              /\ sent.form.code = code /\ sent.url = config.tokenUrl
              /\ IF endpoint[code].status = 200 /\ "access_token" \in DOMAIN endpoint[code].body
                 THEN r.err = "" /\ r.token = endpoint[code].body.access_token
                 ELSE r.err # "" /\ r.token = ""
    /\ \A config \in AdapterConfigs, json \in InfoObjects :
          /\ UserInfo(config, json).identifier = ValueOf(json, config.fieldMapping.identifier)
          /\ UserInfo(config, json).displayName = ValueOf(json, config.fieldMapping.displayName)
    /\ proc.pc \in {"exchanged", "done"} => proc.token \in ProviderAccessTokens
    /\ proc.pc = "exchanged" => proc.token = proc.answered[1].body.access_token
    /\ proc.pc = "done" =>
          /\ proc.userInfo[1].identifier =
                ValueOf(proc.answered[1].body, idps[1].config.fieldMapping.identifier)
          /\ proc.userInfo[1].displayName =
                ValueOf(proc.answered[1].body, idps[1].config.fieldMapping.displayName)

\* C25 witness: with the field mapping identifier "email", display name "name",
\* the adapter got a token and then the user info of John Doe
C25_Witness ==
    /\ idps[1].config.fieldMapping = [identifier |-> "email", displayName |-> "name"]
    /\ proc.pc = "done"
    /\ proc.token = "test-access-token"
    /\ proc.userInfo = <<[identifier |-> "john.doe@example.com", displayName |-> "John Doe"]>>

-----------------------------------------------------------------------------
(* Two requests that create a user, interleaved at the store calls *)

\* the requests: SignUp, SignInWithSSO from the lookup of the identifier the
\* provider returned, and CreateUser
CreateKinds == {"SignUp", "SignInWithSSO", "CreateUser"}

\* the license of the run, for requests that got past the SSO gate
RunLicenses == {l \in Licenses : l.sso}

\* the first store read of SignUp (the security setting) and of SignInWithSSO
\* (the user with the identifier as email)
FirstRead(p) ==
    /\ proc[p].pc = "start"
    /\ LET found == ListUsers(users, FindEmail(proc[p].email))
           user == CHOOSE u \in found : TRUE
       IN  proc' = [proc EXCEPT ![p] =
              IF proc[p].kind = "SignUp"
              THEN IF security.disallowUserRegistration
                   THEN [@ EXCEPT !.pc = "done",
                                  !.status = Errorf("PermissionDenied", "sign up is not allowed", <<>>)]
                   ELSE [@ EXCEPT !.pc = "seat"]
              ELSE IF found = {}
                   THEN [@ EXCEPT !.pc = "seat"]
                   ELSE IF user.rowStatus = Archived
                   THEN [@ EXCEPT !.pc = "done",
                                  !.status = Errorf("PermissionDenied", "user has been archived", <<>>)]
                   ELSE [@ EXCEPT !.pc = "signin", !.id = user.id]]
    /\ UNCHANGED <<users, nextId, security, idps, settings, collections, tokens, now, ownerCache, writes>>

\* checkSeatAvailability: the users are counted
CheckSeat(p) ==
    /\ proc[p].pc = "seat"
    /\ proc' = [proc EXCEPT ![p] =
          IF checkSeatAvailability(proc[p].lic).code # "OK"
          THEN [@ EXCEPT !.pc = "done", !.status = checkSeatAvailability(proc[p].lic)]
          ELSE [@ EXCEPT !.pc = IF proc[p].kind = "SignUp" THEN "list" ELSE "insert"]]
    /\ UNCHANGED <<users, nextId, security, idps, settings, collections, tokens, now, ownerCache, writes>>

\* SignUp lists the users to choose the role
ListExisting(p) ==
    /\ proc[p].pc = "list"
    /\ proc' = [proc EXCEPT ![p].pc = "insert",
                            ![p].role = IF ListUsers(users, FindAll) = {}
                                        THEN RoleAdmin ELSE RoleUser]
    /\ UNCHANGED <<users, nextId, security, idps, settings, collections, tokens, now, ownerCache, writes>>

\* the store's CreateUser: the row is inserted, unless the email is taken
Insert(p) ==
    /\ proc[p].pc = "insert"
    /\ IF EmailTaken(users, proc[p].email)
       THEN /\ proc' = [proc EXCEPT ![p].pc = "done",
                                    ![p].status = Errorf("Internal", "failed to create user", <<>>)]
            /\ UNCHANGED <<users, nextId>>
       ELSE /\ users' = DBCreateUser(users, nextId,
                           [email |-> proc[p].email, nickname |-> "nick",
                            passwordHash |-> GenerateFromPassword("pw"), role |-> proc[p].role])
            /\ nextId' = nextId + 1
            /\ proc' = [proc EXCEPT ![p].id = nextId,
                                    ![p].pc = IF proc[p].kind = "CreateUser"
                                              THEN "done" ELSE "signin"]
    /\ UNCHANGED <<security, idps, settings, collections, tokens, now, ownerCache, writes>>

\* doSignIn for the user the request created or found
SignInStep(p) ==
    /\ proc[p].pc = "signin"
    /\ \E user \in ListUsers(users, [id |-> <<proc[p].id>>, email |-> <<>>, role |-> <<>>]) :
          tokens' = doSignIn(user, now + AccessTokenDuration, "none").tokens
    /\ proc' = [proc EXCEPT ![p].pc = "done"]
    /\ UNCHANGED <<users, nextId, security, idps, settings, collections, now, ownerCache, writes>>

InitCreate ==
    /\ users = {}
    /\ nextId = 1
    /\ security \in [disallowUserRegistration : BOOLEAN, disallowPasswordAuth : {FALSE}]
    /\ idps = <<Idp1>>
    /\ tokens = [id \in IdSpace |-> <<>>]
    /\ now = 0
    /\ ownerCache = <<>>
    /\ settings = DefaultSettings
    /\ collections = NoCollections
    /\ \E lic \in RunLicenses :
          proc \in [Procs -> {[pc |-> IF kind = "CreateUser" THEN "seat" ELSE "start",
                               kind |-> kind, email |-> email, role |-> RoleUser,
                               lic |-> lic, id |-> 0, status |-> OK] :
                                 kind \in CreateKinds, email \in Emails}]
    /\ writes = <<>>

NextCreate ==
    \E p \in Procs :
        \/ FirstRead(p)
        \/ CheckSeat(p)
        \/ ListExisting(p)
        \/ Insert(p)
        \/ SignInStep(p)

SpecCreate == InitCreate /\ [][NextCreate]_vars

\* C26: with unlimited accounts disabled and seats = N, in every interleaving
\* of concurrent SignUp, SSO provisioning and CreateUser requests the number
\* of stored users never exceeds N.
C26_SeatBoundConcurrent ==
    \A p \in Procs :
        ~proc[p].lic.unlimitedAccounts => Cardinality(users) <= proc[p].lic.seats

\* C27: in every interleaving of concurrent SignUp requests that start from an
\* empty user set, exactly one of the created users has role Admin and all the
\* others have role User.
C27_OneAdminConcurrent ==
    ((\A p \in Procs : proc[p].kind = "SignUp") /\ users # {}) =>
        /\ Cardinality({u \in users : u.role = RoleAdmin}) = 1
        /\ \A u \in users : u.role \in {RoleAdmin, RoleUser}

-----------------------------------------------------------------------------
(* Further claims about the registry, under SpecRegistry *)

\* the records of a list that carry another token than the given one, in order
OtherRecords(list, accessToken) ==
    SelectSeq(list, LAMBDA r : r.accessToken # accessToken)

\* list continues stored: every record of stored is at its place in list
Continues(list, stored) ==
    /\ Len(list) >= Len(stored)
    /\ SubSeq(list, 1, Len(stored)) = stored

\* C28: a create (and the upsert of a sign-in) leaves every stored record at
\* its place, valid or not, and adds at most one; a delete leaves the records
\* that carry another token than the requested one, valid or not, in their
\* order, and adds none; a list request and a request that fails leave the
\* storage as it was, so only a delete removes a record.
C28_WritesKeepUnrelated ==
    \A caller \in users :
        LET stored == tokens[caller.id]
        IN  /\ \A id \in UserIds, expiresAt \in ExpiresAts,
                  description \in Descriptions, fault \in StoreFaults :
                  LET o == CreateUserAccessToken(caller, id, expiresAt, description, fault)
                  IN  /\ Continues(o.tokens[caller.id], stored)
                      /\ Len(o.tokens[caller.id]) =
                            Len(stored) + (IF o.status = OK THEN 1 ELSE 0)
            /\ \A accessToken \in DeleteTokens(stored), fault \in StoreFaults :
                  LET r == UpsertAccessTokenToStore(caller, accessToken, "user login", fault)
                  IN  /\ Continues(r.tokens[caller.id], stored)
                      /\ Len(r.tokens[caller.id]) = Len(stored) + (IF r.err = "" THEN 1 ELSE 0)
            /\ \A id \in UserIds, fault \in StoreFaults :
                  ListUserAccessTokens(caller, id, fault).tokens = tokens
            /\ \A accessToken \in DeleteTokens(stored), fault \in StoreFaults :
                  LET o == DeleteUserAccessToken(caller, accessToken, fault)
                  IN  /\ OtherRecords(o.tokens[caller.id], accessToken)
                            = OtherRecords(stored, accessToken)
                      /\ Len(o.tokens[caller.id]) <= Len(stored)
                      /\ o.status # OK => o.tokens = tokens

\* C28 witness: the stored list holds a record that does not validate; a
\* create succeeds and a delete removes a record with another token, and the
\* record that does not validate is still stored after each
C28_Witness ==
    \E caller \in users :
        LET stored == tokens[caller.id]
        IN  \E i \in 1..Len(stored) :
                /\ ~PassesValidation(stored[i].accessToken)
                /\ Len(stored) < MaxLen
                /\ LET o == CreateUserAccessToken(caller, caller.id, ZeroTime, "ci", "none")
                   IN  /\ o.status = OK
                       /\ o.tokens[caller.id][i] = stored[i]
                       /\ Len(ListUserAccessTokens(caller, caller.id, "none").response)
                             < Len(stored)
                /\ \E accessToken \in DeleteTokens(stored) :
                      LET o == DeleteUserAccessToken(caller, accessToken, "none")
                      IN  /\ accessToken # stored[i].accessToken
                          /\ Len(o.tokens[caller.id]) < Len(stored)
                          /\ \E j \in 1..Len(o.tokens[caller.id]) :
                                o.tokens[caller.id][j] = stored[i]

\* the tokens some list holds
AnyStoredTokens ==
    UNION {{tokens[id][i].accessToken : i \in 1..Len(tokens[id])} : id \in IdSpace}

\* the lists of the ids other than the caller's are the same in both registries
OthersKept(caller, registry) ==
    \A id \in IdSpace : id # caller.id => registry[id] = tokens[id]

\* C29: ListUserAccessTokens and CreateUserAccessToken for an id other than
\* the current user's answer PermissionDenied and leave the storage as it was;
\* for the current user's id they answer from, and write, the current user's
\* list only; DeleteUserAccessToken, whatever token it names, rewrites the
\* current user's list only.
C29_ScopedToCaller ==
    \A caller \in users :
        /\ \A id \in UserIds, fault \in StoreFaults :
              LET o == ListUserAccessTokens(caller, id, fault)
              IN  /\ o.tokens = tokens
                  /\ id # caller.id =>
                        /\ o.status.code = "PermissionDenied"
                        /\ o.response = <<>>
                  /\ \A i \in 1..Len(o.response) :
                        \E j \in 1..Len(tokens[caller.id]) :
                            tokens[caller.id][j].accessToken = o.response[i].accessToken
        /\ \A id \in UserIds, expiresAt \in ExpiresAts,
              description \in Descriptions, fault \in StoreFaults :
              LET o == CreateUserAccessToken(caller, id, expiresAt, description, fault)
              IN  /\ OthersKept(caller, o.tokens)
                  /\ id # caller.id =>
                        /\ o.status.code = "PermissionDenied"
                        /\ o.response = <<>>
                        /\ o.tokens = tokens
        /\ \A accessToken \in AnyStoredTokens \cup {NeverStored}, fault \in StoreFaults :
              OthersKept(caller, DeleteUserAccessToken(caller, accessToken, fault).tokens)

\* C29 witness: another id has a stored record; the current user is refused
\* its list and a token under that id, and deleting the token of that record
\* succeeds and leaves the record where it is
C29_Witness ==
    \E caller \in users, id \in UserIds :
        /\ id # caller.id
        /\ tokens[id] # <<>> /\ tokens[caller.id] # <<>>
        /\ ListUserAccessTokens(caller, id, "none").status.code = "PermissionDenied"
        /\ CreateUserAccessToken(caller, id, ZeroTime, "ci", "none").status.code
              = "PermissionDenied"
        /\ LET o == DeleteUserAccessToken(caller, tokens[id][1].accessToken, "none")
           IN  o.status = OK /\ o.tokens = tokens

-----------------------------------------------------------------------------
(* A sign-up that fails, under Spec *)

\* C30: whenever SignUp or SignInWithSSO returns an error, also when the
\* minting, the persisting or the setting of the cookie fails after the user
\* was inserted, the users are the same as before the request.
C30_FailedSignUpAtomic ==
    /\ \A email \in Emails, nickname \in Nicknames, password \in SignUpPasswords,
          fault \in Faults, lic \in Licenses :
          LET o == SignUp(email, nickname, password, fault, lic)
          IN  o.status # OK => o.users = users
    /\ \A idpId \in IdpIds, answer \in ProviderAnswers, fault \in Faults, lic \in Licenses :
          LET o == SignInWithSSO(idpId, answer, fault, lic)
          IN  o.status # OK => o.users = users

-----------------------------------------------------------------------------
(* Workspace settings *)

\* a provider whose type is not OAuth2: the enum's zero value
TypeUnspecified == "TYPE_UNSPECIFIED"

Idp9 ==
    [Idp1 EXCEPT !.id = "idp9", !.title = "Other", !.type = TypeUnspecified,
                 !.config.clientSecret = "s3cret-9"]

\* the visibility enums of the API and of the store
convertVisibilityToStorepb(visibility) ==
    CASE visibility = "v1pb.WORKSPACE" -> "WORKSPACE"
      [] visibility = "v1pb.PUBLIC" -> "PUBLIC"
      [] OTHER -> "VISIBILITY_UNSPECIFIED"

convertVisibilityFromStorepb(visibility) ==
    CASE visibility = "WORKSPACE" -> "v1pb.WORKSPACE"
      [] visibility = "PUBLIC" -> "v1pb.PUBLIC"
      [] OTHER -> "v1pb.VISIBILITY_UNSPECIFIED"

\* the store's identity provider as the API's message, and back: every field
\* is copied
convertIdentityProviderFromStore(identityProvider) ==
    [id |-> identityProvider.id, title |-> identityProvider.title,
     type |-> identityProvider.type,
     config |-> [clientId |-> identityProvider.config.clientId,
                 clientSecret |-> identityProvider.config.clientSecret,
                 authUrl |-> identityProvider.config.authUrl,
                 tokenUrl |-> identityProvider.config.tokenUrl,
                 userInfoUrl |-> identityProvider.config.userInfoUrl,
                 fieldMapping |-> identityProvider.config.fieldMapping]]

convertIdentityProviderToStore(identityProvider) ==
    [id |-> identityProvider.id, title |-> identityProvider.title,
     type |-> identityProvider.type,
     config |-> [clientId |-> identityProvider.config.clientId,
                 clientSecret |-> identityProvider.config.clientSecret,
                 authUrl |-> identityProvider.config.authUrl,
                 tokenUrl |-> identityProvider.config.tokenUrl,
                 userInfoUrl |-> identityProvider.config.userInfoUrl,
                 fieldMapping |-> identityProvider.config.fieldMapping]]

\* the current user of a request: <<>> when there is none
Callers == {<<>>} \cup {<<u>> : u \in users}

\* the outcome of a settings handler: the status, the response and the
\* settings it leaves
SettingsOutcome(status, response, sec, providers, general) ==
    [status |-> status, response |-> response,
     security |-> sec, idps |-> providers, settings |-> general]

\* a faulty redaction: by the provider's type instead of by its config
RedactedByType(currentUser, identityProvider) ==
    IF (currentUser = <<>> \/ currentUser[1].role # RoleAdmin) /\ identityProvider.type = OAuth2
    THEN [convertIdentityProviderFromStore(identityProvider) EXCEPT !.config.clientSecret = ""]
    ELSE convertIdentityProviderFromStore(identityProvider)

\* the provider as GetWorkspaceSetting hands it to the current user
Redacted(currentUser, identityProvider) ==
    IF currentUser = <<>> \/ currentUser[1].role # RoleAdmin
    THEN [convertIdentityProviderFromStore(identityProvider) EXCEPT !.config.clientSecret = ""]
    ELSE convertIdentityProviderFromStore(identityProvider)

\* the message GetWorkspaceSetting builds from the stored settings
WorkspaceSettingOf(currentUser, sec, providers, general) ==
    [branding |-> general.branding,
     customStyle |-> general.customStyle,
     disallowUserRegistration |-> sec.disallowUserRegistration,
     disallowPasswordAuth |-> sec.disallowPasswordAuth,
     defaultVisibility |-> convertVisibilityFromStorepb(general.defaultVisibility),
     identityProviders |->
         [i \in 1..Len(providers) |-> Redacted(currentUser, providers[i])]]

GetWorkspaceSetting(currentUser) ==
    SettingsOutcome(OK, <<WorkspaceSettingOf(currentUser, security, idps, settings)>>,
                    security, idps, settings)

RECURSIVE ApplyPaths(_, _, _)
\* the loop of UpdateWorkspaceSetting over the paths of the mask: each path is
\* written to the store as it is met; st.err is the path the loop stopped at
ApplyPaths(paths, setting, st) ==
    IF paths = <<>> THEN st
    ELSE LET path == Head(paths)
         IN  IF path = "branding"
             THEN ApplyPaths(Tail(paths), setting,
                             [st EXCEPT !.settings.branding = setting.branding])
             ELSE IF path = "custom_style"
             THEN ApplyPaths(Tail(paths), setting,
                             [st EXCEPT !.settings.customStyle = setting.customStyle])
             ELSE IF path = "default_visibility"
             THEN ApplyPaths(Tail(paths), setting,
                             [st EXCEPT !.settings.defaultVisibility =
                                 convertVisibilityToStorepb(setting.defaultVisibility)])
             ELSE IF path = "identity_providers"
             THEN ApplyPaths(Tail(paths), setting,
                             [st EXCEPT !.idps =
                                 [i \in 1..Len(setting.identityProviders) |->
                                     convertIdentityProviderToStore(setting.identityProviders[i])]])
             ELSE IF path = "disallow_user_registration"
             THEN ApplyPaths(Tail(paths), setting,
                             [st EXCEPT !.security.disallowUserRegistration =
                                 setting.disallowUserRegistration])
             ELSE IF path = "disallow_password_auth"
             THEN ApplyPaths(Tail(paths), setting,
                             [st EXCEPT !.security.disallowPasswordAuth =
                                 setting.disallowPasswordAuth])
             ELSE [st EXCEPT !.err = <<path>>]

UpdateWorkspaceSetting(currentUser, paths, setting) ==
    LET st == ApplyPaths(paths, setting,
                         [err |-> <<>>, security |-> security, idps |-> idps,
                          settings |-> settings])
    IN  IF paths = <<>>
        THEN SettingsOutcome(Errorf("InvalidArgument", "update mask is empty", <<>>), <<>>,
                             security, idps, settings)
        ELSE IF st.err # <<>>
        THEN SettingsOutcome(Errorf("InvalidArgument", "invalid path: %s", st.err), <<>>,
                             st.security, st.idps, st.settings)
        ELSE SettingsOutcome(OK,
                             <<WorkspaceSettingOf(currentUser, st.security, st.idps, st.settings)>>,
                             st.security, st.idps, st.settings)

\* the paths UpdateWorkspaceSetting knows, and one it does not
SettingPaths ==
    {"branding", "custom_style", "default_visibility", "identity_providers",
     "disallow_user_registration", "disallow_password_auth"}

MaskPaths == SettingPaths \cup {"bogus"}

\* the update masks: no path, one path, two paths
SettingMasks ==
    {<<>>} \cup {<<p>> : p \in MaskPaths} \cup {<<p, q>> : p \in MaskPaths, q \in MaskPaths}

\* the settings a request carries
SettingRequests ==
    [branding : {"logo"}, customStyle : {""}, defaultVisibility : {"v1pb.PUBLIC"},
     identityProviders : {<<Idp1>>, <<Idp9>>, <<Idp9, Idp1>>},
     disallowUserRegistration : BOOLEAN, disallowPasswordAuth : BOOLEAN]

\* the masks of the requests that are taken as steps: no path, one path, and
\* the unknown path before or after a known one
StepMasks ==
    {paths \in SettingMasks :
        Len(paths) = 2 => (paths[1] = "bogus") # (paths[2] = "bogus")}

\* the settings of the requests that are taken as steps
StepSettings ==
    {setting \in SettingRequests :
        setting.disallowPasswordAuth = (Len(setting.identityProviders) = 1)}

\* the state a handled settings request leaves
HandleSettings(outcome) ==
    /\ security' = outcome.security
    /\ idps' = outcome.idps
    /\ settings' = outcome.settings
    /\ UNCHANGED <<users, nextId, collections, tokens, now, ownerCache, proc, writes>>

InitSettings ==
    /\ users = {}
    /\ nextId = 1
    /\ security = [disallowUserRegistration |-> FALSE, disallowPasswordAuth |-> FALSE]
    /\ idps = <<>>
    /\ tokens = [id \in IdSpace |-> <<>>]
    /\ now = 0
    /\ ownerCache = <<>>
    /\ settings = DefaultSettings
    /\ collections = NoCollections
    /\ proc = <<>>
    /\ writes = <<>>

NextSettings ==
    \/ \E currentUser \in Callers : HandleSettings(GetWorkspaceSetting(currentUser))
    \/ \E currentUser \in Callers, paths \in StepMasks, setting \in StepSettings :
          HandleSettings(UpdateWorkspaceSetting(currentUser, paths, setting))
    \/ \E email \in Emails, nickname \in Nicknames, password \in SignUpPasswords,
          lic \in SeatLicenses :
          Handle(SignUp(email, nickname, password, "none", lic))
    \/ \E email \in Emails, nickname \in Nicknames, password \in SignUpPasswords,
          lic \in SeatLicenses :
          Handle(CreateUser(email, nickname, password, lic))
    \/ \E r \in SSORequests : Handle(SignInWithSSO(r.idpId, r.answer, r.fault, r.lic))

SpecSettings == InitSettings /\ [][NextSettings]_vars

-----------------------------------------------------------------------------
(* Claims about sign-in under the workspace settings, under SpecSettings *)

\* the codes of the errors a handler returns to its caller
ErrorCodes ==
    {"InvalidArgument", "PermissionDenied", "Internal", "FailedPrecondition",
     "NotFound", "Unauthenticated"}

\* the first configured provider with the id, as <<provider>>, or <<>>
Configured(idpId) ==
    LET matching == SelectSeq(idps, LAMBDA p : p.id = idpId)
    IN  IF matching = <<>> THEN <<>> ELSE <<Head(matching)>>

\* C31: SignInWithSSO for a configured provider whose type is not OAuth2
\* returns an error to the caller: it does not read the user info while that
\* is unset.
C31_NonOAuth2IsAnError ==
    \A idpId \in IdpIds, answer \in ProviderAnswers, fault \in Faults, lic \in Licenses :
        (lic.sso /\ Configured(idpId) # <<>> /\ Configured(idpId)[1].type # OAuth2) =>
            SignInWithSSO(idpId, answer, fault, lic).status.code \in ErrorCodes

\* C32: while DisallowUserRegistration is true, neither SignUp nor
\* SignInWithSSO with an identity whose email no user has adds a user.
C32_RegistrationBanCoversSSO ==
    security.disallowUserRegistration =>
        /\ \A email \in Emails, nickname \in Nicknames, password \in SignUpPasswords,
              fault \in Faults, lic \in Licenses :
              SignUp(email, nickname, password, fault, lic).users = users
        /\ \A idpId \in IdpIds, answer \in ProviderAnswers, fault \in Faults, lic \in Licenses :
              SignInWithSSO(idpId, answer, fault, lic).users = users

-----------------------------------------------------------------------------
(* Claims about the settings handlers, under SpecSettings *)

\* the current user is nobody, or somebody who is not an admin
NotAdmin(currentUser) == currentUser = <<>> \/ currentUser[1].role # RoleAdmin

\* every provider of the response carries the empty client secret
SecretsBlank(response) ==
    \A i \in 1..Len(response.identityProviders) :
        response.identityProviders[i].config.clientSecret = ""

\* the providers with other client secrets in the store
OtherSecrets == {"", "s3cret", "rotated"}

WithSecrets(providers, secrets) ==
    [i \in 1..Len(providers) |-> [providers[i] EXCEPT !.config.clientSecret = secrets[i]]]

\* C33: for a caller who is anonymous or not an admin, every provider in a
\* GetWorkspaceSetting response, and in an UpdateWorkspaceSetting response,
\* carries the empty client secret; the stored providers keep their secrets
\* (a read leaves the store as it was, an update stores the secrets of the
\* request); and the response is the same whatever the stored secrets are.
C33_ClientSecretConfidential ==
    \A currentUser \in Callers :
        NotAdmin(currentUser) =>
            /\ LET o == GetWorkspaceSetting(currentUser)
               IN  /\ o.status = OK
                   /\ SecretsBlank(o.response[1])
                   /\ o.idps = idps /\ o.security = security /\ o.settings = settings
                   /\ \A secrets \in [1..Len(idps) -> OtherSecrets] :
                         WorkspaceSettingOf(currentUser, security,
                                            WithSecrets(idps, secrets), settings)
                            = o.response[1]
            /\ \A paths \in SettingMasks, setting \in SettingRequests :
                  LET o == UpdateWorkspaceSetting(currentUser, paths, setting)
                  IN  o.status = OK =>
                         /\ SecretsBlank(o.response[1])
                         /\ o.idps = IF \E i \in 1..Len(paths) : paths[i] = "identity_providers"
                                     THEN setting.identityProviders ELSE idps

\* C33 witness: two providers are stored with their secrets, one of them not
\* of type OAuth2; a user who is not an admin gets both with the empty secret,
\* and an admin gets the stored secrets
C33_Witness ==
    /\ Len(idps) = 2
    /\ \E i \in 1..2 : idps[i].type # OAuth2
    /\ \A i \in 1..2 : idps[i].config.clientSecret # ""
    /\ \E currentUser \in Callers :
          /\ currentUser # <<>> /\ currentUser[1].role = RoleUser
          /\ SecretsBlank(GetWorkspaceSetting(currentUser).response[1])
    /\ \E currentUser \in Callers :
          /\ currentUser # <<>> /\ currentUser[1].role = RoleAdmin
          /\ \A i \in 1..2 :
                GetWorkspaceSetting(currentUser).response[1].identityProviders[i]
                    .config.clientSecret = idps[i].config.clientSecret

\* C34: an UpdateWorkspaceSetting request with no path in its mask, or with
\* a path the handler does not know, also after paths it knows, returns
\* InvalidArgument and leaves every setting as it was.
C34_BadMaskChangesNothing ==
    \A currentUser \in Callers, paths \in SettingMasks, setting \in SettingRequests :
        (paths = <<>> \/ \E i \in 1..Len(paths) : paths[i] \notin SettingPaths) =>
            LET o == UpdateWorkspaceSetting(currentUser, paths, setting)
            IN  /\ o.status.code = "InvalidArgument"
                /\ o.security = security
                /\ o.idps = idps
                /\ o.settings = settings

-----------------------------------------------------------------------------
(* Collection service *)

\* what the license service answers while CreateCollection is handled
CollectionLicenses ==
    {l \in [unlimitedCollections : BOOLEAN, collectionsLimit : 1..MaxCollections] :
        l.unlimitedCollections => l.collectionsLimit = 1}

\* the store's collection table
GetCollection(id) == {c \in collections.rows : c.id = id}

StoreCreateCollection(create) ==
    [rows |-> collections.rows \cup {[create EXCEPT !.id = collections.nextId]},
     nextId |-> collections.nextId + 1]

\* update.f is <<>> for a field the update leaves alone, else <<value>>
StoreUpdateCollection(update) ==
    [collections EXCEPT !.rows =
        {IF c.id # update.id THEN c
         ELSE [c EXCEPT !.name = IF update.name = <<>> THEN @ ELSE update.name[1],
                        !.title = IF update.title = <<>> THEN @ ELSE update.title[1],
                        !.description =
                            IF update.description = <<>> THEN @ ELSE update.description[1],
                        !.shortcutIds =
                            IF update.shortcutIds = <<>> THEN @ ELSE update.shortcutIds[1],
                        !.visibility =
                            IF update.visibility = <<>> THEN @ ELSE update.visibility[1]]
            : c \in collections.rows}]

StoreDeleteCollection(id) ==
    [collections EXCEPT !.rows = {c \in collections.rows : c.id # id}]

\* the outcome of a collection handler: the status, the response and the
\* table it leaves
CollectionOutcome(status, response, table) ==
    [status |-> status, response |-> response, collections |-> table]

CollectionReject(status) == CollectionOutcome(status, <<>>, collections)

convertCollectionFromStore(collection) ==
    [collection EXCEPT !.visibility = convertVisibilityFromStorepb(collection.visibility)]

\* user is the row of the current user
CreateCollection(user, collection, lic) ==
    IF collection.name = "" \/ collection.title = ""
    THEN CollectionReject(Errorf("InvalidArgument", "name and title are required", <<>>))
    ELSE IF ~lic.unlimitedCollections /\ Cardinality(collections.rows) >= lic.collectionsLimit
    THEN CollectionReject(Errorf("PermissionDenied", "Maximum number of collections %d reached",
                                 <<lic.collectionsLimit>>))
    ELSE LET table == StoreCreateCollection(
                          [id |-> 0, creatorId |-> user.id, name |-> collection.name,
                           title |-> collection.title,
                           description |-> collection.description,
                           shortcutIds |-> collection.shortcutIds,
                           visibility |-> convertVisibilityToStorepb(collection.visibility)])
         IN  CollectionOutcome(OK,
                 <<convertCollectionFromStore(
                       CHOOSE c \in table.rows : c.id = collections.nextId)>>,
                 table)

\* the store.UpdateCollection the loop over the paths builds
CollectionUpdate(id, paths, collection) ==
    [id |-> id,
     name |-> IF Has(paths, "name") THEN <<collection.name>> ELSE <<>>,
     title |-> IF Has(paths, "title") THEN <<collection.title>> ELSE <<>>,
     description |-> IF Has(paths, "description") THEN <<collection.description>> ELSE <<>>,
     shortcutIds |-> IF Has(paths, "shortcut_ids") THEN <<collection.shortcutIds>> ELSE <<>>,
     visibility |-> IF Has(paths, "visibility")
                    THEN <<convertVisibilityToStorepb(collection.visibility)>> ELSE <<>>]

\* a faulty update: the creator only, not the admins
UpdateCollectionCreatorOnly(user, paths, collection) ==
    LET found == GetCollection(collection.id)
        stored == CHOOSE c \in found : TRUE
        table == StoreUpdateCollection(CollectionUpdate(collection.id, paths, collection))
    IN  IF paths = <<>>
        THEN CollectionReject(Errorf("InvalidArgument", "updateMask is required", <<>>))
        ELSE IF found = {}
        THEN CollectionReject(Errorf("NotFound", "collection not found", <<>>))
        ELSE IF stored.creatorId # user.id
        THEN CollectionReject(Errorf("PermissionDenied", "Permission denied", <<>>))
        ELSE CollectionOutcome(OK,
                 <<convertCollectionFromStore(CHOOSE c \in table.rows : c.id = collection.id)>>,
                 table)

\* user is the row of the current user
UpdateCollection(user, paths, collection) ==
    LET found == GetCollection(collection.id)
        stored == CHOOSE c \in found : TRUE
        table == StoreUpdateCollection(CollectionUpdate(collection.id, paths, collection))
    IN  IF paths = <<>>
        THEN CollectionReject(Errorf("InvalidArgument", "updateMask is required", <<>>))
        ELSE IF found = {}
        THEN CollectionReject(Errorf("NotFound", "collection not found", <<>>))
        ELSE IF stored.creatorId # user.id /\ user.role # RoleAdmin
        THEN CollectionReject(Errorf("PermissionDenied", "Permission denied", <<>>))
        ELSE CollectionOutcome(OK,
                 <<convertCollectionFromStore(CHOOSE c \in table.rows : c.id = collection.id)>>,
                 table)

\* user is the row of the current user
DeleteCollection(user, id) ==
    LET found == GetCollection(id)
        stored == CHOOSE c \in found : TRUE
    IN  IF found = {}
        THEN CollectionReject(Errorf("NotFound", "collection not found", <<>>))
        ELSE IF stored.creatorId # user.id /\ user.role # RoleAdmin
        THEN CollectionReject(Errorf("PermissionDenied", "Permission denied", <<>>))
        ELSE CollectionOutcome(OK, <<>>, StoreDeleteCollection(id))

\* the users of the workspace: an admin and two users
CollectionUsers ==
    {NewRow(1, [email |-> "a@x.io", nickname |-> "nick",
                passwordHash |-> GenerateFromPassword("pw"), role |-> RoleAdmin]),
     NewRow(2, [email |-> "b@x.io", nickname |-> "nick",
                passwordHash |-> GenerateFromPassword("pw"), role |-> RoleUser]),
     NewRow(3, [email |-> "c@x.io", nickname |-> "nick",
                passwordHash |-> GenerateFromPassword("pw"), role |-> RoleUser])}

\* the ids a request names: those the sequence can hand out, and one more
CollectionIds == 1..(MaxCollections + 1)

\* the collection a create request carries
NewCollections ==
    [id : {0}, name : {"", "n1"}, title : {"t1"}, description : {"d1"},
     shortcutIds : {<<>>}, visibility : {"v1pb.WORKSPACE"}]

\* the collection an update request carries
ChangedCollections ==
    [id : CollectionIds, name : {"n2"}, title : {"t1"}, description : {"d2"},
     shortcutIds : {<<>>}, visibility : {"v1pb.PUBLIC"}]

\* the update masks: no path, one path, a path the handler does not know, two paths
CollectionMasks ==
    {<<>>, <<"name">>, <<"title">>, <<"description">>, <<"shortcut_ids">>,
     <<"visibility">>, <<"bogus">>, <<"name", "visibility">>}

\* the state a handled collection request leaves; the guard keeps the id
\* sequence inside the bound
HandleCollection(outcome) ==
    /\ outcome.collections.nextId <= MaxCollections + 1
    /\ collections' = outcome.collections
    /\ UNCHANGED <<users, nextId, security, idps, settings, tokens, now, ownerCache, proc, writes>>

InitCollections ==
    /\ users = CollectionUsers
    /\ nextId = 4
    /\ security = [disallowUserRegistration |-> FALSE, disallowPasswordAuth |-> FALSE]
    /\ idps = <<>>
    /\ tokens = [id \in IdSpace |-> <<>>]
    /\ now = 0
    /\ ownerCache = <<>>
    /\ settings = DefaultSettings
    /\ collections = NoCollections
    /\ proc = <<>>
    /\ writes = <<>>

NextCollections ==
    \/ \E user \in users, collection \in NewCollections, lic \in CollectionLicenses :
          HandleCollection(CreateCollection(user, collection, lic))
    \/ \E user \in users, paths \in CollectionMasks, collection \in ChangedCollections :
          HandleCollection(UpdateCollection(user, paths, collection))
    \/ \E user \in users, id \in CollectionIds :
          HandleCollection(DeleteCollection(user, id))

SpecCollections == InitCollections /\ [][NextCollections]_vars

-----------------------------------------------------------------------------
(* Claims about the collection service, under SpecCollections *)

\* the user may write the collection: its creator, or an admin
MayWrite(user, collection) == collection.creatorId = user.id \/ user.role = RoleAdmin

\* the rows other than the one with the id are the same in both tables
OtherRowsKept(table, id) ==
    {c \in table.rows : c.id # id} = {c \in collections.rows : c.id # id}

\* C35, as stated: UpdateCollection and DeleteCollection change or remove a
\* collection only for its creator or an admin; for every other user they
\* return PermissionDenied and leave the table as it was, and for a missing
\* collection they return NotFound.
C35_WritesByCreatorOrAdmin ==
    \A user \in users, id \in CollectionIds :
        /\ \A paths \in CollectionMasks, collection \in ChangedCollections :
              collection.id = id =>
                  LET o == UpdateCollection(user, paths, collection)
                  IN  /\ OtherRowsKept(o.collections, id)
                      /\ GetCollection(id) = {} =>
                            o.status.code = "NotFound" /\ o.collections = collections
                      /\ \A c \in GetCollection(id) :
                            ~MayWrite(user, c) =>
                                /\ o.status.code = "PermissionDenied"
                                /\ o.collections = collections
        /\ LET o == DeleteCollection(user, id)
           IN  /\ OtherRowsKept(o.collections, id)
               /\ GetCollection(id) = {} =>
                     o.status.code = "NotFound" /\ o.collections = collections
               /\ \A c \in GetCollection(id) :
                     ~MayWrite(user, c) =>
                         /\ o.status.code = "PermissionDenied"
                         /\ o.collections = collections

\* C35, amended: a request that is refused, for whatever reason, leaves the
\* table as it was, and a request changes at most the row it names and only
\* for its creator or an admin; DeleteCollection, and UpdateCollection with a
\* mask that has a path, return NotFound for a missing collection and
\* PermissionDenied for every other user, and succeed for the creator and for
\* an admin; UpdateCollection with no path in its mask returns
\* InvalidArgument to every user, before it looks for the collection.
C35_WritesByCreatorOrAdminMasked ==
    \A user \in users, id \in CollectionIds :
        /\ \A paths \in CollectionMasks, collection \in ChangedCollections :
              collection.id = id =>
                  LET o == UpdateCollection(user, paths, collection)
                  IN  /\ OtherRowsKept(o.collections, id)
                      /\ o.status # OK => o.collections = collections
                      /\ o.collections.nextId = collections.nextId
                      /\ {c.id : c \in o.collections.rows} = {c.id : c \in collections.rows}
                      /\ o.status.code =
                            IF paths = <<>> THEN "InvalidArgument"
                            ELSE IF GetCollection(id) = {} THEN "NotFound"
                            ELSE IF \E c \in GetCollection(id) : MayWrite(user, c) THEN "OK"
                            ELSE "PermissionDenied"
        /\ LET o == DeleteCollection(user, id)
           IN  /\ OtherRowsKept(o.collections, id)
               /\ o.status # OK => o.collections = collections
               /\ o.status = OK => \A c \in o.collections.rows : c.id # id
               /\ o.status.code =
                     IF GetCollection(id) = {} THEN "NotFound"
                     ELSE IF \E c \in GetCollection(id) : MayWrite(user, c) THEN "OK"
                     ELSE "PermissionDenied"

\* C35 witness: a collection a user created is stored; another user is
\* refused its update and its delete, with and without paths in the mask,
\* while the creator and the admin change it, and a request for an id no
\* collection has finds nothing
C35_Witness ==
    \E c \in collections.rows, other \in users, admin \in users, creator \in users :
        \E collection \in ChangedCollections, missing \in ChangedCollections :
            /\ collection.id = c.id /\ GetCollection(missing.id) = {}
            /\ creator.id = c.creatorId /\ creator.role = RoleUser
            /\ other.id # c.creatorId /\ other.role = RoleUser
            /\ admin.id # c.creatorId /\ admin.role = RoleAdmin
            /\ UpdateCollection(other, <<"name">>, collection).status.code = "PermissionDenied"
            /\ UpdateCollection(other, <<>>, collection).status.code = "InvalidArgument"
            /\ UpdateCollection(other, <<"name">>, missing).status.code = "NotFound"
            /\ DeleteCollection(other, c.id).status.code = "PermissionDenied"
            /\ UpdateCollection(admin, <<"name">>, collection).collections # collections
            /\ UpdateCollection(creator, <<"name">>, collection).collections # collections
            /\ DeleteCollection(creator, c.id).collections # collections

-----------------------------------------------------------------------------
(* The Run function of the root command and its signal goroutine *)

\* the signals the process is notified of
Signals == {"SIGINT", "SIGTERM"}

\* what s.Start returns: nil, http.ErrServerClosed, or another error
StartResults == {"nil", "ErrServerClosed", "other"}

\* the steps of Run in proc.main; the startup calls fail or succeed
Startup(call, next) ==
    /\ proc.main = call
    /\ \E ok \in BOOLEAN :
          proc' = IF ok THEN [proc EXCEPT !.main = next,
                                          !.server = IF call = "NewServer" THEN "created" ELSE @]
                  ELSE [proc EXCEPT !.main = "returned", !.ctx = "cancelled"]
    /\ UNCHANGED <<users, nextId, security, idps, settings, collections, tokens, now, ownerCache, writes>>

\* signal.Notify and the go statement
Notify ==
    /\ proc.main = "Notify"
    /\ proc' = [proc EXCEPT !.main = "Start", !.sig = "receive"]
    /\ UNCHANGED <<users, nextId, security, idps, settings, collections, tokens, now, ownerCache, writes>>

\* Run calls s.Start
StartCall ==
    /\ proc.main = "Start"
    /\ proc' = [proc EXCEPT !.main = "inStart",
                            !.server = IF @ = "created" THEN "serving" ELSE @]
    /\ UNCHANGED <<users, nextId, security, idps, settings, collections, tokens, now, ownerCache, writes>>

\* s.Start returns while the server is not shut down: with nil or an error
StartReturns ==
    /\ proc.main = "inStart"
    /\ proc.server # "closed"
    /\ \E err \in {"nil", "other"} : proc' = [proc EXCEPT !.main = "checkErr", !.err = err]
    /\ UNCHANGED <<users, nextId, security, idps, settings, collections, tokens, now, ownerCache, writes>>

\* s.Start returns once the server is shut down
StartReturnsClosed ==
    /\ proc.main = "inStart"
    /\ proc.server = "closed"
    /\ \E err \in StartResults : proc' = [proc EXCEPT !.main = "checkErr", !.err = err]
    /\ UNCHANGED <<users, nextId, security, idps, settings, collections, tokens, now, ownerCache, writes>>

\* the check of the error of s.Start
CheckErr ==
    /\ proc.main = "checkErr"
    /\ proc' = [proc EXCEPT !.main = "wait",
                            !.ctx = IF proc.err \notin {"nil", "ErrServerClosed"}
                                    THEN "cancelled" ELSE @]
    /\ UNCHANGED <<users, nextId, security, idps, settings, collections, tokens, now, ownerCache, writes>>

\* <-ctx.Done(), and the return of Run
WaitDone ==
    /\ proc.main = "wait"
    /\ proc.ctx = "cancelled"
    /\ proc' = [proc EXCEPT !.main = "returned"]
    /\ UNCHANGED <<users, nextId, security, idps, settings, collections, tokens, now, ownerCache, writes>>

\* the operating system delivers a signal the process is notified of; the
\* channel holds one
Deliver ==
    /\ proc.sig # "none"
    /\ proc.delivered < MaxSignals
    /\ \E sig \in Signals :
          proc' = [proc EXCEPT !.delivered = @ + 1,
                               !.c = IF @ = <<>> THEN <<sig>> ELSE @]
    /\ UNCHANGED <<users, nextId, security, idps, settings, collections, tokens, now, ownerCache, writes>>

\* the steps of the goroutine in proc.sig: sig := <-c
Receive ==
    /\ proc.sig = "receive"
    /\ proc.c # <<>>
    /\ proc' = [proc EXCEPT !.sig = "Shutdown", !.received = proc.c, !.c = <<>>]
    /\ UNCHANGED <<users, nextId, security, idps, settings, collections, tokens, now, ownerCache, writes>>

\* the goroutine calls s.Shutdown
ShutdownCall ==
    /\ proc.sig = "Shutdown"
    /\ proc' = [proc EXCEPT !.sig = "inShutdown", !.server = "closed"]
    /\ UNCHANGED <<users, nextId, security, idps, settings, collections, tokens, now, ownerCache, writes>>

\* s.Shutdown returns
ShutdownReturns ==
    /\ proc.sig = "inShutdown"
    /\ proc' = [proc EXCEPT !.sig = "cancel"]
    /\ UNCHANGED <<users, nextId, security, idps, settings, collections, tokens, now, ownerCache, writes>>

\* a faulty goroutine: it ends without cancelling the context
EndsWithoutCancel ==
    /\ proc.sig = "cancel"
    /\ proc' = [proc EXCEPT !.sig = "done"]
    /\ UNCHANGED <<users, nextId, security, idps, settings, collections, tokens, now, ownerCache, writes>>

\* the goroutine calls cancel and ends
Cancel ==
    /\ proc.sig = "cancel"
    /\ proc' = [proc EXCEPT !.sig = "done", !.ctx = "cancelled"]
    /\ UNCHANGED <<users, nextId, security, idps, settings, collections, tokens, now, ownerCache, writes>>

InitShutdown ==
    /\ users = {}
    /\ nextId = 1
    /\ security = [disallowUserRegistration |-> FALSE, disallowPasswordAuth |-> FALSE]
    /\ idps = <<>>
    /\ tokens = [id \in IdSpace |-> <<>>]
    /\ now = 0
    /\ ownerCache = <<>>
    /\ settings = DefaultSettings
    /\ collections = NoCollections
    /\ proc = [main |-> "NewDBDriver", sig |-> "none", ctx |-> "live", server |-> "none",
               err |-> "nil", c |-> <<>>, received |-> <<>>, delivered |-> 0]
    /\ writes = <<>>

\* the steps of Run itself
MainStep ==
    \/ Startup("NewDBDriver", "Migrate")
    \/ Startup("Migrate", "NewServer")
    \/ Startup("NewServer", "Notify")
    \/ Notify
    \/ StartCall
    \/ CheckErr
    \/ WaitDone

\* the steps of the goroutine itself
SignalStep == Receive \/ ShutdownCall \/ Cancel

NextShutdown ==
    \/ MainStep
    \/ SignalStep
    \/ StartReturns
    \/ StartReturnsClosed
    \/ ShutdownReturns
    \/ Deliver

\* both goroutines are scheduled, s.Shutdown returns, and s.Start returns once
\* the server is shut down
SpecShutdown ==
    /\ InitShutdown /\ [][NextShutdown]_vars
    /\ WF_vars(MainStep) /\ WF_vars(SignalStep)
    /\ WF_vars(ShutdownReturns) /\ WF_vars(StartReturnsClosed)

\* C36: Run returns only with the context cancelled; the goroutine cancels
\* the context only after it called s.Shutdown; once a signal is in the
\* channel, Run eventually returns; and once s.Start has returned an error
\* other than ErrServerClosed, Run eventually returns.
C36_ShutdownTerminates ==
    /\ [](proc.main = "returned" => proc.ctx = "cancelled")
    /\ [](proc.sig \in {"cancel", "done"} => proc.server = "closed")
    /\ [](proc.sig \in {"Shutdown", "inShutdown", "cancel"} => proc.ctx = "live" \/ proc.err = "other")
    /\ (proc.c # <<>>) ~> (proc.main = "returned")
    /\ (proc.main = "checkErr" /\ proc.err = "other") ~> (proc.main = "returned")

\* C36 witness: s.Start had returned nil, a signal was received, the goroutine
\* shut the server down and cancelled the context, and Run returned
C36_Witness ==
    /\ proc.main = "returned"
    /\ proc.err = "nil"
    /\ proc.received # <<>>
    /\ proc.sig = "done"
    /\ proc.server = "closed"
    /\ proc.ctx = "cancelled"

=============================================================================
